---- MODULE Spec2Model ----
(***************************************************************************)
(* Model of the MyStreamTV schedule engine (backend/services/              *)
(* schedule_engine.py), its content matcher (content_metadata.py) and the  *)
(* request handlers that drive them (routers/epg.py,                       *)
(* routers/channel_management.py).                                         *)
(*                                                                         *)
(* Conventions.                                                            *)
(*  - A Python str that is searched or normalised is a sequence of         *)
(*    one-character strings; a str that is only compared for equality is   *)
(*    a TLA+ string.                                                       *)
(*  - Optional[T] is a sequence of length <= 1: <<>> is None, <<x>> is x.  *)
(*  - A dict is a function whose DOMAIN is the set of keys present.        *)
(*  - A date is a day number; a datetime is minutes since day 0, 00:00.    *)
(*  - A float rating is an integer number of tenths.                       *)
(***************************************************************************)
EXTENDS Integers, Sequences, FiniteSets, TLC

VARIABLES
    \* ---- ScheduleEngine state (schedule_engine.py:27-42)
    template,         \* data/channel_templates.json: index of the document on disk
    channels,         \* self.channels
    global_pool,      \* self._global_pool
    pool_store,       \* data/content_pool.json: the pool as last saved
    schedule_cache,   \* self._schedule_cache: (channel id, date) -> programs
    content_usage,    \* self._content_usage: (date, hour) -> set of tmdb ids
    recently_played,  \* self._recently_played: channel id -> (tmdb id -> date)
    cooldown_store,   \* data/cooldown.json: the dict last dumped, empty if never written
    pending,          \* generate_schedule_for_date calls suspended in "await self.build_global_pool()"
    \* ---- observation of the calls made on the engine
    trail,            \* the last three operations, with arguments and results
    placed,           \* every (channel id, date, tmdb_id, media_type) ever put in a generated schedule
    nops,             \* number of operations performed so far
    \* ---- inputs and results of the pure matcher (content_metadata.py:58-182)
    m_case,           \* per filter category: absent from the slot, declared, or declared with the record built to pass / to fail it
    m_content,        \* the ContentMetadata record under test
    m_slot,           \* the TimeSlot whose filters are applied
    m_eligible,       \* channel id -> whether _filter_pool_by_slot keeps m_content for that channel
    \* ---- one call of discover_content_for_filters (content_pool_builder.py:72-234)
    disc,             \* its arguments, position, results and seen_ids, and the catalog queries made
    \* ---- one call of detect_universes (universe_detector.py:80-170)
    det               \* the catalog item, what its lookups answer, and the labels returned

vars == <<template, channels, global_pool, pool_store, schedule_cache, content_usage,
          recently_played, cooldown_store, pending, trail, placed, nops,
          m_case, m_content, m_slot, m_eligible, disc, det>>

engine_vars == <<template, channels, global_pool, pool_store, schedule_cache,
                 content_usage, recently_played, cooldown_store, pending, trail, placed,
                 nops>>

match_vars == <<m_case, m_content, m_slot, m_eligible>>

----------------------------------------------------------------------------
(* Optional values and dicts *)

None == <<>>

Some(x) == <<x>>

IsNone(o) == o = <<>>

Val(o) == o[1]

\* dict.get(key): None when the key is absent
Get(d, k) == IF k \in DOMAIN d THEN Some(d[k]) ELSE None

\* set(list)
ToSet(s) == {s[i] : i \in 1..Len(s)}

----------------------------------------------------------------------------
(* Python str operations on sequences of characters *)

UpperChars == <<"A","B","C","D","E","F","G","H","I","J","K","L","M",
                "N","O","P","Q","R","S","T","U","V","W","X","Y","Z">>

LowerChars == <<"a","b","c","d","e","f","g","h","i","j","k","l","m",
                "n","o","p","q","r","s","t","u","v","w","x","y","z">>

DigitChars == <<"0","1","2","3","4","5","6","7","8","9">>

\* the characters the regex class \s matches
SpaceChars == {" ", "\t", "\n", "\r"}

LowerChar(c) ==
    IF \E i \in 1..Len(UpperChars) : UpperChars[i] = c
    THEN LowerChars[CHOOSE i \in 1..Len(UpperChars) : UpperChars[i] = c]
    ELSE c

\* str.lower()
StrLower(s) == [i \in 1..Len(s) |-> LowerChar(s[i])]

\* a in b  (substring test; the empty string is in every string)
StrIn(a, b) ==
    \E k \in 0..(Len(b) - Len(a)) : \A i \in 1..Len(a) : b[k + i] = a[i]

\* str.strip(): leading and trailing whitespace removed
StrStrip(s) ==
    LET idx == {i \in 1..Len(s) : s[i] \notin SpaceChars}
    IN IF idx = {} THEN <<>>
       ELSE LET lo == CHOOSE i \in idx : \A j \in idx : i <= j
                hi == CHOOSE i \in idx : \A j \in idx : i >= j
            IN SubSeq(s, lo, hi)

\* re.sub(r'[^a-zA-Z0-9\s]', ' ', s)
IsAlnumOrSpace(c) ==
    \/ c \in ToSet(UpperChars)
    \/ c \in ToSet(LowerChars)
    \/ c \in ToSet(DigitChars)
    \/ c \in SpaceChars

NormalizeText(s) == [i \in 1..Len(s) |-> IF IsAlnumOrSpace(s[i]) THEN s[i] ELSE " "]

\* whether old occurs in s at offset k (0-based)
OccursAt(s, old, k) ==
    /\ k + Len(old) <= Len(s)
    /\ \A i \in 1..Len(old) : s[k + i] = old[i]

\* str.replace(old, new) for a non-empty old: left to right, non-overlapping
RECURSIVE StrReplaceFrom(_, _, _, _)
StrReplaceFrom(s, old, new, k) ==
    IF k >= Len(s) THEN <<>>
    ELSE IF OccursAt(s, old, k)
         THEN new \o StrReplaceFrom(s, old, new, k + Len(old))
         ELSE <<s[k + 1]>> \o StrReplaceFrom(s, old, new, k + 1)

StrReplace(s, old, new) == StrReplaceFrom(s, old, new, 0)

----------------------------------------------------------------------------
(* ContentMetadata.matches_slot_filters (content_metadata.py:58-182)       *)
(* c is a ContentMetadata record, f the slot_filters dict.                 *)

\* truthiness of slot_filters.get(key) for a list, tuple or str value
HasSeq(f, k) == k \in DOMAIN f /\ f[k] # <<>>

\* truthiness of slot_filters.get(key) for a number
HasNum(f, k) == k \in DOMAIN f /\ f[k] # 0

\* truthiness of slot_filters.get(key) for a str that is only compared
HasStr(f, k) == k \in DOMAIN f /\ f[k] # ""

\* line 67-68
IsAttributed(c, f) ==
    LET channel_id == IF "channel_id" \in DOMAIN f THEN f["channel_id"] ELSE None
    IN /\ ~IsNone(channel_id)
       /\ Val(channel_id) \in ToSet(c.origin_channels)

\* 1. Content type (movie vs tv)
ContentTypeOk(c, f) ==
    HasStr(f, "content_type") => c.media_type = f["content_type"]

\* 2. Decade/Year: "not self.year" rejects both None and 0
DecadeOk(c, f) ==
    HasSeq(f, "decade") =>
        /\ ~IsNone(c.year)
        /\ Val(c.year) # 0
        /\ f["decade"][1] <= Val(c.year)
        /\ Val(c.year) <= f["decade"][2]

\* 3. Quality (vote average, in tenths)
VoteAverageOk(c, f) ==
    HasNum(f, "vote_average_min") => ~(c.vote_average < f["vote_average_min"])

\* 4. Blacklist: exact membership of the lower-cased keyword
ExcludeKeywordsOk(c, f) ==
    HasSeq(f, "exclude_keywords") =>
        LET excluded == {StrLower(k) : k \in ToSet(f["exclude_keywords"])}
            content_keywords == {StrLower(k) : k \in ToSet(c.keywords)}
        IN ~(\E k \in excluded : k \in content_keywords)

\* 5. People: an int is compared with director_id, a str searched in director_name
PersonMatches(c, person) ==
    IF "int" \in DOMAIN person
    THEN ~IsNone(c.director_id) /\ Val(c.director_id) = person["int"]
    ELSE /\ ~IsNone(c.director_name)
         /\ Val(c.director_name) # <<>>
         /\ StrIn(StrLower(person["str"]), StrLower(Val(c.director_name)))

WithPeopleOk(c, f) ==
    HasSeq(f, "with_people") =>
        \E person \in ToSet(f["with_people"]) : PersonMatches(c, person)

\* PHASE 1: structural filters
Phase1(c, f) ==
    /\ ContentTypeOk(c, f)
    /\ DecadeOk(c, f)
    /\ VoteAverageOk(c, f)
    /\ ExcludeKeywordsOk(c, f)
    /\ WithPeopleOk(c, f)

\* 1. Universe filter: exact intersection, else substring either way
UniversesOk(c, f) ==
    HasSeq(f, "universes") =>
        LET required_universes == ToSet(f["universes"])
            content_universes == ToSet(c.universes)
        IN \/ required_universes \cap content_universes # {}
           \/ \E req \in required_universes : \E cu \in content_universes :
                  \/ StrIn(StrLower(req), StrLower(cu))
                  \/ StrIn(StrLower(cu), StrLower(req))

\* 2. Keywords filter: substring either way, lower-cased and stripped
KeywordsOk(c, f) ==
    HasSeq(f, "keywords") =>
        LET required_keywords == {StrStrip(StrLower(k)) : k \in ToSet(f["keywords"])}
            content_keywords == {StrStrip(StrLower(k)) : k \in ToSet(c.keywords)}
        IN \E req \in required_keywords : \E ck \in content_keywords :
               StrIn(req, ck) \/ StrIn(ck, req)

\* 3. Title/Overview search
EpisodeStr == <<"e","p","i","s","o","d","e">>

EpisodioStr == <<"e","p","i","s","o","d","i","o">>

SeriesStr == <<"s","e","r","i","e","s">>

SerieStr == <<"s","e","r","i","e">>

FlexiblePatterns(p) ==
    LET p_norm == NormalizeText(p)
    IN {p_norm}
       \cup (IF StrIn(EpisodeStr, p_norm)
             THEN {StrReplace(p_norm, EpisodeStr, EpisodioStr)} ELSE {})
       \cup (IF StrIn(SeriesStr, p_norm)
             THEN {StrReplace(p_norm, SeriesStr, SerieStr)} ELSE {})

TitleContainsOk(c, f) ==
    HasSeq(f, "title_contains") =>
        LET patterns == {StrLower(p) : p \in ToSet(f["title_contains"])}
            text_to_search == NormalizeText(StrLower(c.title \o <<" ">> \o c.overview))
        IN \E p \in patterns : \E pattern \in FlexiblePatterns(p) :
               StrIn(pattern, text_to_search)

\* 4. Genre IDs filter
GenresOk(c, f) ==
    HasSeq(f, "genres") => ToSet(f["genres"]) \cap ToSet(c.genres) # {}

\* 5. Production countries: set() of the filter value, which for a str is
\*    the set of its characters
ProductionCountriesOk(c, f) ==
    HasSeq(f, "production_countries") =>
        LET required_countries == ToSet(f["production_countries"])
        IN \E cc \in ToSet(c.origin_countries) : cc \in required_countries

\* 6. Original language
OriginalLanguageOk(c, f) ==
    HasStr(f, "original_language") =>
        c.original_language = Some(f["original_language"])

\* (variant) OR across the thematic filters: one passing sub-filter is enough
Phase3_any(c, f) ==
    \/ DOMAIN f \cap {"universes", "keywords", "title_contains", "genres",
                      "production_countries", "original_language"} = {}
    \/ HasSeq(f, "universes") /\ UniversesOk(c, f)
    \/ HasSeq(f, "keywords") /\ KeywordsOk(c, f)
    \/ HasSeq(f, "title_contains") /\ TitleContainsOk(c, f)
    \/ HasSeq(f, "genres") /\ GenresOk(c, f)
    \/ HasSeq(f, "production_countries") /\ ProductionCountriesOk(c, f)
    \/ HasStr(f, "original_language") /\ OriginalLanguageOk(c, f)

\* PHASE 3: thematic filters
Phase3(c, f) ==
    /\ UniversesOk(c, f)
    /\ KeywordsOk(c, f)
    /\ TitleContainsOk(c, f)
    /\ GenresOk(c, f)
    /\ ProductionCountriesOk(c, f)
    /\ OriginalLanguageOk(c, f)

\* (variant) no trust in attribution: phase 3 always runs
AttributionBypass_never(c, f) == FALSE

\* PHASE 2: a record attributed to the channel skips phase 3
AttributionBypass(c, f) == IsAttributed(c, f)

\* (variant) the attribution check placed before the structural filters
matches_slot_filters_bypass_first(c, f) ==
    IF AttributionBypass(c, f) THEN TRUE
    ELSE Phase1(c, f) /\ Phase3(c, f)

matches_slot_filters(c, f) ==
    IF ~Phase1(c, f) THEN FALSE
    ELSE IF AttributionBypass(c, f) THEN TRUE
    ELSE Phase3(c, f)

----------------------------------------------------------------------------
(* ScheduleEngine._filter_pool_by_slot (schedule_engine.py:362-415)        *)

EmptyDict == <<>>

\* one optional entry of the slot_filters dict
Entry(cond, k, v) == IF cond THEN k :> v ELSE EmptyDict

SlotFilters(slot, channel_id) ==
    ("channel_id" :> channel_id)
    @@ Entry(~IsNone(slot.content_type), "content_type", Val(slot.content_type))
    @@ Entry(slot.genre_ids # <<>>, "genres", slot.genre_ids)
    @@ Entry(~IsNone(slot.decade), "decade", Val(slot.decade))
    @@ Entry(~IsNone(slot.vote_average_min) /\ Val(slot.vote_average_min) # 0,
             "vote_average_min", Val(slot.vote_average_min))
    @@ Entry(slot.universes # <<>>, "universes", slot.universes)
    @@ Entry(slot.keywords # <<>>, "keywords", slot.keywords)
    @@ Entry(slot.exclude_keywords # <<>>, "exclude_keywords", slot.exclude_keywords)
    @@ Entry(~IsNone(slot.original_language) /\ Val(slot.original_language) # "",
             "original_language", Val(slot.original_language))
    @@ Entry(~IsNone(slot.production_countries) /\ Val(slot.production_countries) # <<>>,
             "production_countries", Val(slot.production_countries))
    @@ Entry(slot.with_people # <<>>, "with_people", slot.with_people)
    @@ Entry(slot.title_contains # <<>>, "title_contains", slot.title_contains)

\* eligible = [content for content in pool if content.matches_slot_filters(slot_filters)]
RECURSIVE MatchingContent(_, _)
MatchingContent(pool, slot_filters) ==
    IF pool = <<>> THEN <<>>
    ELSE (IF matches_slot_filters(Head(pool), slot_filters) THEN <<Head(pool)>> ELSE <<>>)
         \o MatchingContent(Tail(pool), slot_filters)

filter_pool_by_slot(pool, slot, channel_id) ==
    MatchingContent(pool, SlotFilters(slot, channel_id))

----------------------------------------------------------------------------
(* data/channel_templates.json and ScheduleEngine._load_channel_templates  *)
(* (schedule_engine.py:285-354)                                            *)

\* str.split(":")
RECURSIVE SplitColon(_)
SplitColon(s) ==
    IF \A i \in 1..Len(s) : s[i] # ":" THEN <<s>>
    ELSE LET k == CHOOSE i \in 1..Len(s) : s[i] = ":" /\ \A j \in 1..(i - 1) : s[j] # ":"
         IN <<SubSeq(s, 1, k - 1)>> \o SplitColon(SubSeq(s, k + 1, Len(s)))

DigitValue(c) == (CHOOSE i \in 1..Len(DigitChars) : DigitChars[i] = c) - 1

RECURSIVE DigitsValue(_)
DigitsValue(s) ==
    IF s = <<>> THEN 0
    ELSE DigitsValue(SubSeq(s, 1, Len(s) - 1)) * 10 + DigitValue(s[Len(s)])

\* int(part): None stands for ValueError.  Surrounding whitespace is accepted;
\* the template strings of the model hold digits, letters, ":" and spaces only.
ParseInt(part) ==
    LET t == StrStrip(part)
    IN IF t # <<>> /\ \A i \in 1..Len(t) : t[i] \in ToSet(DigitChars)
       THEN Some(DigitsValue(t))
       ELSE None

\* time(int(parts[0]), int(parts[1])) as minutes after 00:00, or the fallback
\* on ValueError (not a number, hour or minute out of range) and IndexError
\* (no ":")
ParseTime(str, fallback) ==
    LET parts == SplitColon(str)
    IN IF Len(parts) < 2 THEN fallback
       ELSE LET h == ParseInt(parts[1])
                m == ParseInt(parts[2])
            IN IF IsNone(h) \/ IsNone(m) THEN fallback
               ELSE IF Val(h) > 23 \/ Val(m) > 59 THEN fallback
               ELSE Val(h) * 60 + Val(m)

\* the values of the ContentType enum (models.py:10-13)
ContentTypeValues == {"movie", "tv", "filler"}

\* (variant) the kind string is taken as written
ParseContentType_unchecked(ctype_str) == ctype_str

\* ContentType(ctype_str), ContentType.MOVIE on ValueError
ParseContentType(ctype_str) ==
    IF ctype_str \in ContentTypeValues THEN ctype_str ELSE "movie"

GetOr(d, k, default) == IF k \in DOMAIN d THEN d[k] ELSE default

DefaultStart == <<"0","0",":","0","0">>

DefaultEnd == <<"0","4",":","0","0">>

\* one TimeSlot built from a slot entry of the document (lines 298-343)
ParseSlot(slot_data) ==
    [ start_time |-> ParseTime(GetOr(slot_data, "start", DefaultStart), 0),
      end_time |-> ParseTime(GetOr(slot_data, "end", DefaultEnd), 4 * 60),
      label |-> GetOr(slot_data, "label", "Untitled Slot"),
      genre_ids |-> GetOr(slot_data, "genres", <<>>),
      decade |-> IF HasSeq(slot_data, "decade") THEN Some(slot_data["decade"]) ELSE None,
      keywords |-> GetOr(slot_data, "keywords", <<>>),
      content_type |-> Some(ParseContentType(GetOr(slot_data, "content_type", "movie"))),
      original_language |-> Get(slot_data, "original_language"),
      production_countries |-> Get(slot_data, "production_countries"),
      vote_average_min |-> Get(slot_data, "vote_average_min"),
      with_people |-> GetOr(slot_data, "with_people", <<>>),
      universes |-> GetOr(slot_data, "universes", <<>>),
      exclude_keywords |-> GetOr(slot_data, "exclude_keywords", <<>>),
      title_contains |-> GetOr(slot_data, "title_contains", <<>>) ]

\* one Channel built from a channel entry of the document (lines 296-353)
ParseChannel(ch_data) ==
    LET slots_data == GetOr(ch_data, "slots", <<>>)
    IN [ id |-> ch_data["id"],
         name |-> ch_data["name"],
         enabled |-> GetOr(ch_data, "enabled", TRUE),
         priority |-> GetOr(ch_data, "priority", 50),
         slots |-> [i \in 1..Len(slots_data) |-> ParseSlot(slots_data[i])] ]

\* _load_channel_templates appends every channel of the document to self.channels
load_channel_templates(chs, doc) ==
    LET ch_list == GetOr(doc, "channels", <<>>)
    IN chs \o [i \in 1..Len(ch_list) |-> ParseChannel(ch_list[i])]

\* The documents the template file holds in the model.
\* Document 1: channel A (a movie slot 20:00-22:00, a series slot 23:30-01:00
\* that crosses midnight) and channel B (a movie slot 20:00-21:00 with no
\* content_type given, a series slot 00:00-02:00).
TemplateDoc1 ==
    [ channels |-> <<
        [ id |-> "A", name |-> "Channel A",
          slots |-> <<
            [ start |-> <<"2","0",":","0","0">>, end |-> <<"2","2",":","0","0">>,
              label |-> "A movies", content_type |-> "movie" ],
            [ start |-> <<"2","3",":","3","0">>, end |-> <<"0","1",":","0","0">>,
              label |-> "A late series", content_type |-> "tv" ] >> ],
        [ id |-> "B", name |-> "Channel B", priority |-> 60,
          slots |-> <<
            [ start |-> <<"2","0",":","0","0">>, end |-> <<"2","1",":","0","0">>,
              label |-> "B movies" ],
            [ start |-> <<"0","0",":","0","0">>, end |-> <<"0","2",":","0","0">>,
              label |-> "B night series", content_type |-> "tv" ] >> ] >> ]

\* Document 2: channel B edited (first slot: a malformed start, no end, an
\* unknown content kind, a genre filter; second slot: a rating floor no title
\* of the pool reaches; third slot: series from midnight to midnight; fourth
\* slot: series again, over the first two hours of the third; fifth slot:
\* half an hour of series, which one episode fills), channel
\* A deleted, a disabled channel C added (its second slot has an end hour out
\* of range).
TemplateDoc2 ==
    [ channels |-> <<
        [ id |-> "B", name |-> "Channel B",
          slots |-> <<
            [ start |-> <<"2","x",":","0","0">>,
              label |-> "B action", content_type |-> "series", genres |-> <<28>> ],
            [ start |-> <<"1","8",":","0","0">>, end |-> <<"1","9",":","0","0">>,
              label |-> "B acclaimed", vote_average_min |-> 70 ],
            [ start |-> <<"0","0",":","0","0">>, end |-> <<"0","0",":","0","0">>,
              label |-> "B all day", content_type |-> "tv" ],
            [ start |-> <<"0","0",":","0","0">>, end |-> <<"0","2",":","0","0">>,
              label |-> "B night", content_type |-> "tv" ],
            [ start |-> <<"0","6",":","0","0">>, end |-> <<"0","6",":","3","0">>,
              label |-> "B short", content_type |-> "tv" ] >> ],
        [ id |-> "C", name |-> "Channel C", enabled |-> FALSE,
          slots |-> <<
            [ start |-> <<"2","1",":","0","0">>, end |-> <<"2","1",":","0","0">>,
              content_type |-> "tv" ],
            [ start |-> <<"2","2",":","0","0">>, end |-> <<"2","5",":","0","0">>,
              label |-> "C late", content_type |-> "filler" ] >> ] >> ]

\* Document 3: document 1 with a second movie slot 22:00-23:00 on channel A
\* in place of the slot that crosses midnight; every slot of it ends on the
\* day it starts.
TemplateDoc3 ==
    [ channels |-> <<
        [ id |-> "A", name |-> "Channel A",
          slots |-> <<
            [ start |-> <<"2","0",":","0","0">>, end |-> <<"2","2",":","0","0">>,
              label |-> "A movies", content_type |-> "movie" ],
            [ start |-> <<"2","2",":","0","0">>, end |-> <<"2","3",":","0","0">>,
              label |-> "A late movies", content_type |-> "movie" ] >> ],
        [ id |-> "B", name |-> "Channel B", priority |-> 60,
          slots |-> <<
            [ start |-> <<"2","0",":","0","0">>, end |-> <<"2","1",":","0","0">>,
              label |-> "B movies" ],
            [ start |-> <<"0","0",":","0","0">>, end |-> <<"0","2",":","0","0">>,
              label |-> "B night series", content_type |-> "tv" ] >> ] >> ]

\* Document 4: a file whose text is not JSON.
TemplateDoc4 == [ syntax_error |-> TRUE ]

\* Document 5: channel A of document 3, then an entry for channel B that has
\* no name, then a channel C.
TemplateDoc5 ==
    [ channels |-> <<
        [ id |-> "A", name |-> "Channel A",
          slots |-> <<
            [ start |-> <<"2","0",":","0","0">>, end |-> <<"2","2",":","0","0">>,
              label |-> "A movies", content_type |-> "movie" ] >> ],
        [ id |-> "B", priority |-> 60,
          slots |-> <<
            [ start |-> <<"2","0",":","0","0">>, end |-> <<"2","1",":","0","0">>,
              label |-> "B movies" ] >> ],
        [ id |-> "C", name |-> "Channel C",
          slots |-> <<
            [ start |-> <<"2","1",":","0","0">>, end |-> <<"2","3",":","0","0">>,
              label |-> "C movies" ] >> ] >> ]

\* Document 6: one entry, which has a name and no id.
TemplateDoc6 ==
    [ channels |-> <<
        [ name |-> "Channel A",
          slots |-> <<
            [ start |-> <<"2","0",":","0","0">>, end |-> <<"2","2",":","0","0">>,
              label |-> "A movies", content_type |-> "movie" ] >> ] >> ]

TemplateDocs ==
    <<TemplateDoc1, TemplateDoc2, TemplateDoc3, TemplateDoc4, TemplateDoc5, TemplateDoc6>>

\* the documents the channel-management handlers write
EditedTemplates == {1, 2}

\* the documents that _load_channel_templates cannot read to the end
BrokenTemplates == {4, 5, 6}

\* the documents that it reads to the end
ReadableTemplates == (1..Len(TemplateDocs)) \ BrokenTemplates

----------------------------------------------------------------------------
(* The content pool (schedule_engine.py:44-77, content_metadata.py:11-56)  *)

\* a ContentMetadata record; the fields the scheduler does not read are fixed
Content(tmdb_id, media_type, runtime, genres, origin_channels) ==
    [ tmdb_id |-> tmdb_id,
      media_type |-> media_type,
      title |-> <<"t">>,
      overview |-> <<>>,
      genres |-> genres,
      year |-> None,
      vote_average |-> 0,
      keywords |-> <<>>,
      universes |-> <<>>,
      origin_channels |-> origin_channels,
      director_id |-> None,
      director_name |-> None,
      origin_countries |-> <<>>,
      original_language |-> None,
      runtime |-> runtime ]

\* movie 1 (no runtime), movie 2 (40 minutes, genre 28), series 1 (the same
\* numeric id as movie 1, no runtime), series 3 (runtime 0)
Movie1 == Content(1, "movie", None, <<18>>, <<>>)

Movie2 == Content(2, "movie", Some(40), <<28>>, <<"B">>)

Series1 == Content(1, "tv", None, <<18>>, <<>>)

Series3 == Content(3, "tv", Some(0), <<18>>, <<>>)

\* data/content_pool.json as loaded at construction
PersistedPool == <<Movie1, Movie2, Series1, Series3>>

\* the same four titles as discovery returns them: _process_item
\* (content_pool_builder.py:267-290) sets no origin_channels; series 3 comes
\* with a negative runtime
Movie2Fresh == Content(2, "movie", Some(40), <<28>>, <<>>)

Series3Fresh == Content(3, "tv", Some(-5), <<18>>, <<>>)

FreshPool == <<Movie1, Movie2Fresh, Series1, Series3Fresh>>

\* what build_content_pool may return to build_global_pool
BuildResults == {<<>>, FreshPool}

ContentKey(m) == <<m.tmdb_id, m.media_type>>

\* (variant) every built item is appended
MergeBuilt_append(pool, built) == pool \o built

\* (variant) a built item takes the place of the pool record with its key
MergeBuilt_replace(pool, built) ==
    LET Rediscovered(m) == {k \in 1..Len(built) : ContentKey(built[k]) = ContentKey(m)}
        kept == [i \in 1..Len(pool) |->
                    IF Rediscovered(pool[i]) = {} THEN pool[i]
                    ELSE built[CHOOSE k \in Rediscovered(pool[i]) : TRUE]]
        keys == {ContentKey(pool[k]) : k \in 1..Len(pool)}
    IN kept \o SelectSeq(built, LAMBDA m : ContentKey(m) \notin keys)

\* build_global_pool, lines 65-74: append the items whose (tmdb_id, media_type)
\* is not in the pool yet
RECURSIVE MergeBuilt(_, _)
MergeBuilt(pool, built) ==
    IF built = <<>> THEN pool
    ELSE LET item == Head(built)
             seen_ids == {ContentKey(pool[k]) : k \in 1..Len(pool)}
         IN MergeBuilt(IF ContentKey(item) \notin seen_ids THEN Append(pool, item) ELSE pool,
                       Tail(built))

----------------------------------------------------------------------------
(* Usage buckets and cooldown (schedule_engine.py:201-218, 256-282)        *)

CooldownDays == 7

OverflowTolerance == 15

DefaultMovieRuntime == 90

DefaultTvRuntime == 45

MinutesPerDay == 1440

\* datetime.hour and datetime.date() of a datetime in minutes
HourOf(t) == (t % MinutesPerDay) \div 60

DateOf(t) == t \div MinutesPerDay

\* the key f"{target_date.isoformat()}_{hour:02d}"
UsageKey(target_date, hour) == <<target_date, hour>>

\* (variant) the bucket is rewritten from a view that misses what it held
mark_content_used_stale(usage, target_date, hour, tmdb_id) ==
    LET key == UsageKey(target_date, hour)
    IN IF key \in DOMAIN usage
       THEN [usage EXCEPT ![key] = {tmdb_id}]
       ELSE usage @@ (key :> {tmdb_id})

mark_content_used(usage, target_date, hour, tmdb_id) ==
    LET key == UsageKey(target_date, hour)
    IN IF key \in DOMAIN usage
       THEN [usage EXCEPT ![key] = @ \cup {tmdb_id}]
       ELSE usage @@ (key :> {tmdb_id})

\* (variant) the usage buckets are never consulted
is_content_used_never(usage, target_date, hour, tmdb_id) == FALSE

is_content_used(usage, target_date, hour, tmdb_id) ==
    LET key == UsageKey(target_date, hour)
    IN key \in DOMAIN usage /\ tmdb_id \in usage[key]

\* keys that start with the date's ISO string are deleted
clear_usage_for_date(usage, target_date) ==
    [key \in {k \in DOMAIN usage : k[1] # target_date} |-> usage[key]]

\* (variant) the cooldown starts on the day after the play
is_in_cooldown_from_next_day(played, channel_id, tmdb_id, media_type, current_date) ==
    IF media_type = "tv" THEN FALSE
    ELSE IF channel_id \notin DOMAIN played THEN FALSE
    ELSE IF tmdb_id \notin DOMAIN played[channel_id] THEN FALSE
    ELSE /\ current_date - played[channel_id][tmdb_id] < CooldownDays
         /\ current_date # played[channel_id][tmdb_id]

is_in_cooldown(played, channel_id, tmdb_id, media_type, current_date) ==
    IF media_type = "tv" THEN FALSE
    ELSE IF channel_id \notin DOMAIN played THEN FALSE
    ELSE IF tmdb_id \notin DOMAIN played[channel_id] THEN FALSE
    ELSE current_date - played[channel_id][tmdb_id] < CooldownDays

mark_as_played(played, channel_id, tmdb_id, play_date) ==
    LET mine == IF channel_id \in DOMAIN played THEN played[channel_id] ELSE <<>>
        updated == IF tmdb_id \in DOMAIN mine
                   THEN [mine EXCEPT ![tmdb_id] = play_date]
                   ELSE mine @@ (tmdb_id :> play_date)
    IN IF channel_id \in DOMAIN played
       THEN [played EXCEPT ![channel_id] = updated]
       ELSE played @@ (channel_id :> updated)

----------------------------------------------------------------------------
(* Persisted state: data/content_pool.json (content_metadata.py:184-239,     *)
(* schedule_engine.py:44-56, 79-87) and data/cooldown.json                   *)
(* (schedule_engine.py:220-254).  A JSON value is written as it is stored:   *)
(* null or a value for an optional field, a string of digits for a dict key, *)
(* "YYYY-MM-DD" for a date.                                                   *)

\* None is written as null
JsonOpt(opt) == IF IsNone(opt) THEN [null |-> TRUE] ELSE [null |-> FALSE, value |-> Val(opt)]

\* null is read as None
FromJsonOpt(j) == IF j.null THEN None ELSE Some(j.value)

\* data.get(key) on a key that may hold null
GetOpt(data, key) == IF key \in DOMAIN data THEN FromJsonOpt(data[key]) ELSE None

\* ContentMetadata.to_dict, for the fields the model carries
to_dict(m) ==
    [ tmdb_id |-> m.tmdb_id,
      title |-> m.title,
      media_type |-> m.media_type,
      overview |-> m.overview,
      genres |-> m.genres,
      year |-> JsonOpt(m.year),
      vote_average |-> m.vote_average,
      keywords |-> m.keywords,
      universes |-> m.universes,
      origin_channels |-> m.origin_channels,
      director_id |-> JsonOpt(m.director_id),
      director_name |-> JsonOpt(m.director_name),
      origin_countries |-> m.origin_countries,
      original_language |-> JsonOpt(m.original_language),
      runtime |-> JsonOpt(m.runtime) ]

\* ContentMetadata.from_dict: the first fields are required, the others are
\* read with data.get and a default
from_dict(data) ==
    [ tmdb_id |-> data["tmdb_id"],
      media_type |-> data["media_type"],
      title |-> data["title"],
      overview |-> data["overview"],
      genres |-> GetOr(data, "genres", <<>>),
      year |-> GetOpt(data, "year"),
      vote_average |-> GetOr(data, "vote_average", 0),
      keywords |-> GetOr(data, "keywords", <<>>),
      universes |-> GetOr(data, "universes", <<>>),
      origin_channels |-> GetOr(data, "origin_channels", <<>>),
      director_id |-> GetOpt(data, "director_id"),
      director_name |-> GetOpt(data, "director_name"),
      origin_countries |-> GetOr(data, "origin_countries", <<>>),
      original_language |-> GetOpt(data, "original_language"),
      runtime |-> GetOpt(data, "runtime") ]

\* _save_content_pool: [m.to_dict() for m in self._global_pool]
save_content_pool(pool) == [i \in 1..Len(pool) |-> to_dict(pool[i])]

\* _load_content_pool: [ContentMetadata.from_dict(item) for item in data]
load_content_pool(data) == [i \in 1..Len(data) |-> from_dict(data[i])]

\* str(n) for n >= 0
RECURSIVE IntStr(_)
IntStr(n) ==
    IF n < 10 THEN <<DigitChars[n + 1]>>
    ELSE IntStr(n \div 10) \o <<DigitChars[(n % 10) + 1]>>

\* date.isoformat().  Day 0 of the model is 2025-01-01 and every date of the
\* model lies in that month.
IsoFormat(d) ==
    <<"2","0","2","5","-","0","1","-">>
        \o (IF d + 1 < 10 THEN <<"0">> ELSE <<>>) \o IntStr(d + 1)

\* date.fromisoformat: None stands for ValueError
FromIsoFormat(str) ==
    IF Len(str) # 10 \/ str[5] # "-" \/ str[8] # "-" THEN None
    ELSE LET y == ParseInt(SubSeq(str, 1, 4))
             m == ParseInt(SubSeq(str, 6, 7))
             dd == ParseInt(SubSeq(str, 9, 10))
         IN IF IsNone(y) \/ IsNone(m) \/ IsNone(dd) THEN None
            ELSE IF Val(y) # 2025 \/ Val(m) # 1 \/ Val(dd) < 1 \/ Val(dd) > 31 THEN None
            ELSE Some(Val(dd) - 1)

\* the dict _save_cooldown_data dumps: channel id -> (str(tmdb_id) -> ISO date)
save_cooldown_data(played) ==
    [ channel_id \in DOMAIN played |->
        [ key \in {IntStr(tmdb_id) : tmdb_id \in DOMAIN played[channel_id]} |->
            IsoFormat(played[channel_id][CHOOSE tmdb_id \in DOMAIN played[channel_id] :
                                            IntStr(tmdb_id) = key]) ] ]

\* every key reads as an int and every value as a date
Loadable(data) ==
    \A channel_id \in DOMAIN data : \A key \in DOMAIN data[channel_id] :
        ~IsNone(ParseInt(key)) /\ ~IsNone(FromIsoFormat(data[channel_id][key]))

\* (variant) the file is not read
load_cooldown_data_skipped(data) == <<>>

\* _load_cooldown_data into the empty map of a new engine:
\* channel id -> (int(key) -> date.fromisoformat(value)).  An entry that does
\* not read ends the load with an exception that is caught; the model then
\* keeps no channel.
load_cooldown_data(data) ==
    IF ~Loadable(data) THEN <<>>
    ELSE [ channel_id \in DOMAIN data |->
             [ tmdb_id \in {Val(ParseInt(key)) : key \in DOMAIN data[channel_id]} |->
                 Val(FromIsoFormat(data[channel_id][CHOOSE key \in DOMAIN data[channel_id] :
                                                       Val(ParseInt(key)) = tmdb_id])) ] ]

----------------------------------------------------------------------------
(* Seed and shuffle (schedule_engine.py:356-360, 437-441)                  *)

ChannelIds == <<"A", "B", "C">>

ChannelCode(channel_id) == CHOOSE i \in 1..Len(ChannelIds) : ChannelIds[i] = channel_id

SeedModulus == 65537

\* (variant) the seed also depends on how many calls the instance has served
get_seed_by_call(channel_id, target_date, slot_index) ==
    (ChannelCode(channel_id) * 7919 + target_date * 10473 + slot_index * 12983
        + nops + 4001) % SeedModulus

\* _get_seed: the first four bytes of the MD5 of "channel:date:slot".  The
\* digest is represented by a fixed mixing function of the same three inputs
\* with a 16-bit range.
get_seed(channel_id, target_date, slot_index) ==
    (ChannelCode(channel_id) * 7919 + target_date * 10473 + slot_index * 12983 + 4001)
        % SeedModulus

\* the generator behind random.Random(seed): one linear congruential step
NextRandom(state) == (state * 75 + 74) % SeedModulus

Swap(x, i, j) == [x EXCEPT ![i] = x[j], ![j] = x[i]]

\* random.shuffle: for i from the last index down to the second, exchange
\* x[i] with x[j], j drawn below i + 1
RECURSIVE ShuffleFrom(_, _, _)
ShuffleFrom(x, i, state) ==
    IF i < 2 THEN x
    ELSE LET st == NextRandom(state)
             j == 1 + (st % i)
         IN ShuffleFrom(Swap(x, i, j), i - 1, st)

Shuffle(x, seed) == ShuffleFrom(x, Len(x), seed)

----------------------------------------------------------------------------
(* ScheduleEngine._fill_slot_with_content (schedule_engine.py:417-513)     *)

\* (variant) only a missing runtime falls back to the default
EffectiveRuntime_unless_none(content) ==
    IF IsNone(content.runtime)
    THEN (IF content.media_type = "tv" THEN DefaultTvRuntime ELSE DefaultMovieRuntime)
    ELSE Val(content.runtime)

\* lines 459-461
EffectiveRuntime(content) ==
    IF IsNone(content.runtime) \/ Val(content.runtime) <= 0
    THEN (IF content.media_type = "tv" THEN DefaultTvRuntime ELSE DefaultMovieRuntime)
    ELSE Val(content.runtime)

\* (variant) no overflow check
Overflows_never(program_end, slot_end) == FALSE

\* line 467
Overflows(program_end, slot_end) == program_end > slot_end + OverflowTolerance

\* lines 477-508: the Program placed at current_time
MkProgram(content, slot, current_time, program_end, runtime) ==
    [ id |-> <<content.tmdb_id, current_time>>,
      tmdb_id |-> content.tmdb_id,
      content_type |-> content.media_type,
      runtime_minutes |-> runtime,
      start_time |-> current_time,
      end_time |-> program_end,
      slot_label |-> slot.label ]

\* (variant) the walk goes on until the candidates are exhausted
WalkContinues_until_exhausted(current_time, slot_end, content_index, candidates) ==
    content_index < candidates

\* line 445: the condition of the while loop
WalkContinues(current_time, slot_end, content_index, candidates) ==
    current_time < slot_end /\ content_index < candidates

\* (variant) the next program starts on the next whole hour
AdvanceCursor_to_next_hour(current_time, program_end) == ((program_end \div 60) + 1) * 60

\* line 511: current_time = program_end
AdvanceCursor(current_time, program_end) == program_end

\* the while loop of lines 445-511; st holds current_time, content_index,
\* programs and the engine's usage and cooldown maps, and examined, the list
\* index read by each iteration with what the iteration did with the record
RECURSIVE FillWalk(_, _, _, _, _, _)
FillWalk(shuffled, st, slot, slot_end, target_date, channel_id) ==
    IF ~WalkContinues(st.current_time, slot_end, st.content_index, Len(shuffled)) THEN st
    ELSE
      LET content == shuffled[st.content_index + 1]
          after(outcome) ==
              [st EXCEPT !.content_index = @ + 1,
                         !.examined = Append(@, [ index |-> st.content_index,
                                                  tmdb_id |-> content.tmdb_id,
                                                  outcome |-> outcome ])]
          current_hour == HourOf(st.current_time)
          runtime == EffectiveRuntime(content)
          program_end == st.current_time + runtime
      IN IF is_in_cooldown(st.played, channel_id, content.tmdb_id,
                           content.media_type, target_date)
         THEN FillWalk(shuffled, after("cooldown"), slot, slot_end, target_date, channel_id)
         ELSE IF is_content_used(st.usage, target_date, current_hour, content.tmdb_id)
         THEN FillWalk(shuffled, after("used"), slot, slot_end, target_date, channel_id)
         ELSE IF Overflows(program_end, slot_end)
         THEN FillWalk(shuffled, after("overflow"), slot, slot_end, target_date, channel_id)
         ELSE FillWalk(shuffled,
                       [after("placed") EXCEPT
                          !.usage = mark_content_used(@, target_date, current_hour,
                                                      content.tmdb_id),
                          !.played = mark_as_played(@, channel_id, content.tmdb_id,
                                                    target_date),
                          !.programs = Append(@, MkProgram(content, slot, st.current_time,
                                                           program_end, runtime)),
                          !.current_time = AdvanceCursor(st.current_time, program_end)],
                       slot, slot_end, target_date, channel_id)

\* returns the slot's programs and the updated usage and cooldown maps
fill_slot_with_content(slot, eligible_content, slot_start, slot_end, seed, channel_id, usage, played) ==
    LET shuffled == Shuffle(eligible_content, seed)
        done == FillWalk(shuffled,
                         [current_time |-> slot_start, content_index |-> 0,
                          programs |-> <<>>, usage |-> usage, played |-> played,
                          examined |-> <<>>],
                         slot, slot_end, DateOf(slot_start), channel_id)
    IN [programs |-> done.programs, usage |-> done.usage, played |-> done.played,
        examined |-> done.examined]

----------------------------------------------------------------------------
(* ScheduleEngine.generate_schedule_for_date (schedule_engine.py:515-573)  *)

\* (variant) the programs stay in slot order
SortByStart_slot_order(programs) == programs

\* all_programs.sort(key=lambda p: p.start_time): a stable sort
RECURSIVE InsertByStart(_, _)
InsertByStart(sorted, p) ==
    IF sorted = <<>> THEN <<p>>
    ELSE IF Head(sorted).start_time <= p.start_time
         THEN <<Head(sorted)>> \o InsertByStart(Tail(sorted), p)
         ELSE <<p>> \o sorted

RECURSIVE SortByStart(_)
SortByStart(programs) ==
    IF programs = <<>> THEN <<>>
    ELSE InsertByStart(SortByStart(SubSeq(programs, 1, Len(programs) - 1)),
                       programs[Len(programs)])

\* line 538
SlotStart(slot, target_date) == target_date * MinutesPerDay + slot.start_time

\* TimeSlot.duration_minutes (models.py:96-105)
duration_minutes(slot) ==
    LET start_minutes == (slot.start_time \div 60) * 60 + (slot.start_time % 60)
        end_minutes == (slot.end_time \div 60) * 60 + (slot.end_time % 60)
    IN (IF end_minutes <= start_minutes THEN end_minutes + 24 * 60 ELSE end_minutes)
          - start_minutes

\* (variant) only a slot that ends before its start ends on the next day
SlotEnd_when_before(slot, target_date) ==
    target_date * MinutesPerDay + slot.end_time
        + (IF slot.end_time < slot.start_time THEN MinutesPerDay ELSE 0)

\* lines 539-543: a slot whose end is not after its start ends on the next day
SlotEnd(slot, target_date) ==
    target_date * MinutesPerDay + slot.end_time
        + (IF slot.end_time <= slot.start_time THEN MinutesPerDay ELSE 0)

\* (variant) the loop ends at the first slot that has no eligible content
RECURSIVE GenerateSlots_stop_at_empty(_, _, _, _, _)
GenerateSlots_stop_at_empty(channel, target_date, pool, i, acc) ==
    IF i > Len(channel.slots) THEN acc
    ELSE
      LET slot == channel.slots[i]
          slot_start == SlotStart(slot, target_date)
          slot_end == SlotEnd(slot, target_date)
          eligible_content == filter_pool_by_slot(pool, slot, Some(channel.id))
          filled == fill_slot_with_content(slot, eligible_content, slot_start, slot_end,
                                           get_seed(channel.id, target_date, i - 1),
                                           channel.id, acc.usage, acc.played)
      IN IF eligible_content = <<>> THEN acc
         ELSE GenerateSlots_stop_at_empty(channel, target_date, pool, i + 1,
                [ all_programs |-> acc.all_programs \o filled.programs,
                  fills |-> Append(acc.fills,
                                   [ slot_index |-> i - 1,
                                     label |-> slot.label,
                                     eligible_count |-> Len(eligible_content),
                                     slot_start |-> slot_start,
                                     slot_end |-> slot_end,
                                     eligible |-> {eligible_content[k].tmdb_id :
                                                     k \in 1..Len(eligible_content)},
                                     examined |-> filled.examined,
                                     programs |-> filled.programs ]),
                  usage |-> filled.usage,
                  played |-> filled.played ])

\* the loop of lines 534-562 from slot number i (1-based) on; acc holds
\* all_programs, the window and programs of every slot filled, and the
\* engine's usage and cooldown maps
RECURSIVE GenerateSlots(_, _, _, _, _)
GenerateSlots(channel, target_date, pool, i, acc) ==
    IF i > Len(channel.slots) THEN acc
    ELSE
      LET slot == channel.slots[i]
          seed == get_seed(channel.id, target_date, i - 1)
          slot_start == SlotStart(slot, target_date)
          slot_end == SlotEnd(slot, target_date)
          eligible_content == filter_pool_by_slot(pool, slot, Some(channel.id))
          filled == fill_slot_with_content(slot, eligible_content, slot_start, slot_end,
                                           seed, channel.id, acc.usage, acc.played)
      IN IF eligible_content = <<>>
         THEN GenerateSlots(channel, target_date, pool, i + 1, acc)
         ELSE GenerateSlots(channel, target_date, pool, i + 1,
                [ all_programs |-> acc.all_programs \o filled.programs,
                  fills |-> Append(acc.fills,
                                   [ slot_index |-> i - 1,
                                     label |-> slot.label,
                                     eligible_count |-> Len(eligible_content),
                                     slot_start |-> slot_start,
                                     slot_end |-> slot_end,
                                     eligible |-> {eligible_content[k].tmdb_id :
                                                     k \in 1..Len(eligible_content)},
                                     examined |-> filled.examined,
                                     programs |-> filled.programs ]),
                  usage |-> filled.usage,
                  played |-> filled.played ])

CacheKey(channel, target_date) == <<channel.id, target_date>>

\* (variant) the cache is never consulted
CacheHit_never(cache, key) == FALSE

\* line 529
CacheHit(cache, key) == key \in DOMAIN cache

\* (variant) the cache holds the latest schedule only
CacheStore_latest_only(cache, key, programs) == key :> programs

\* line 568
CacheStore(cache, key, programs) ==
    IF key \in DOMAIN cache
    THEN [cache EXCEPT ![key] = programs]
    ELSE cache @@ (key :> programs)

\* lines 527-573, once the pool is in memory: the value returned and the
\* engine state left behind
generate_schedule(channel, target_date, pool, cache, usage, played) ==
    LET cache_key == CacheKey(channel, target_date)
        run == GenerateSlots(channel, target_date, pool, 1,
                             [ all_programs |-> <<>>, fills |-> <<>>,
                               usage |-> usage, played |-> played ])
        all_programs == SortByStart(run.all_programs)
    IN IF CacheHit(cache, cache_key)
       THEN [ cached |-> TRUE, result |-> cache[cache_key], fills |-> <<>>,
              cache |-> cache, usage |-> usage, played |-> played ]
       ELSE [ cached |-> FALSE, result |-> all_programs, fills |-> run.fills,
              cache |-> CacheStore(cache, cache_key, all_programs),
              usage |-> run.usage, played |-> run.played ]

----------------------------------------------------------------------------
(* Inputs of the matcher: one slot and one record per assignment of        *)
(* {absent, pass, fail} to the eleven filter categories, in two variants   *)
(* of concrete values.  The record is attributed to channel "X" only.      *)

Phase1Categories ==
    {"content_type", "decade", "vote_average_min", "exclude_keywords", "with_people"}

Phase3Categories ==
    {"universes", "keywords", "title_contains", "genres",
     "production_countries", "original_language"}

Categories == Phase1Categories \cup Phase3Categories

Outcomes == {"absent", "pass", "fail"}

Variants == {"a", "b"}

Cases == [Categories -> Outcomes]

\* keywords the record carries because of the exclude_keywords category
ExcludeKeywordsOf(cs, v) ==
    CASE cs["exclude_keywords"] = "fail" ->
             IF v = "a" THEN << <<"g","o","r","e">> >> ELSE << <<"G","O","R","E">> >>
      [] cs["exclude_keywords"] = "pass" ->
             IF v = "a" THEN <<>> ELSE << <<"g","o","r","e","s">> >>
      [] OTHER -> <<>>

\* keywords the record carries because of the keywords category
KeywordsOf(cs, v) ==
    CASE cs["keywords"] = "pass" ->
             IF v = "a" THEN << <<"s","p","a","c","e"," ","w","a","r">> >>
             ELSE << <<"S","p","a">> >>
      [] cs["keywords"] = "fail" ->
             IF v = "a" THEN <<>> ELSE << <<"w","e","s","t">> >>
      [] OTHER -> <<>>

MkContent(cs, v) ==
    [ tmdb_id |-> 1,
      media_type |-> IF cs["content_type"] = "pass" THEN "tv" ELSE "movie",
      title |-> IF cs["title_contains"] = "pass"
                THEN (IF v = "a" THEN <<"S","t","a","r",":","W","a","r","s">>
                      ELSE <<"E","p","i","s","o","d","i","o"," ","1">>)
                ELSE <<"A","l","i","e","n">>,
      overview |-> IF v = "a" THEN <<>> ELSE <<"a"," ","s","t","a","r">>,
      genres |-> IF cs["genres"] = "pass" THEN <<12, 18>> ELSE <<18>>,
      year |-> CASE cs["decade"] = "pass" -> IF v = "a" THEN Some(1985) ELSE Some(1989)
                 [] cs["decade"] = "fail" -> IF v = "a" THEN Some(1995) ELSE None
                 [] OTHER -> None,
      vote_average |-> CASE cs["vote_average_min"] = "pass" -> IF v = "a" THEN 80 ELSE 70
                         [] cs["vote_average_min"] = "fail" -> IF v = "a" THEN 69 ELSE 0
                         [] OTHER -> 0,
      keywords |-> ExcludeKeywordsOf(cs, v) \o KeywordsOf(cs, v),
      universes |-> CASE cs["universes"] = "pass" ->
                             IF v = "a" THEN << <<"B","a","t","m","a","n">> >>
                             ELSE << <<"T","h","e"," ","b","a","t","m","a","n">> >>
                      [] cs["universes"] = "fail" ->
                             IF v = "a" THEN <<>> ELSE << <<"D","u","n","e">> >>
                      [] OTHER -> <<>>,
      origin_channels |-> <<"X">>,
      director_id |-> CASE cs["with_people"] = "pass" -> Some(525)
                        [] cs["with_people"] = "fail" -> IF v = "a" THEN Some(7) ELSE None
                        [] OTHER -> None,
      director_name |-> CASE cs["with_people"] = "pass" -> Some(<<"C"," ","N","o","l","a","n">>)
                          [] cs["with_people"] = "fail" ->
                                 IF v = "a" THEN None ELSE Some(<<"N","o","l","t","e">>)
                          [] OTHER -> None,
      origin_countries |-> CASE cs["production_countries"] = "pass" -> <<"US", "MX">>
                             [] cs["production_countries"] = "fail" ->
                                    IF v = "a" THEN <<"US">> ELSE <<>>
                             [] OTHER -> <<>>,
      original_language |-> CASE cs["original_language"] = "pass" -> Some("es")
                              [] cs["original_language"] = "fail" ->
                                     IF v = "a" THEN Some("en") ELSE None
                              [] OTHER -> None,
      runtime |-> None ]

MkSlot(cs, v) ==
    [ start_time |-> 20 * 60,
      end_time |-> 22 * 60,
      label |-> "slot under test",
      content_type |-> IF cs["content_type"] = "absent" THEN None ELSE Some("tv"),
      genre_ids |-> IF cs["genres"] = "absent" THEN <<>> ELSE <<28, 12>>,
      decade |-> IF cs["decade"] = "absent" THEN None ELSE Some(<<1980, 1989>>),
      keywords |-> IF cs["keywords"] = "absent" THEN <<>>
                   ELSE IF v = "a" THEN << <<" ","S","p","a","c","e">> >>
                   ELSE << <<"s","p","a","c","e">>, <<"m","o","o","n">> >>,
      original_language |-> IF cs["original_language"] = "absent" THEN None ELSE Some("es"),
      production_countries |-> IF cs["production_countries"] = "absent" THEN None
                               ELSE Some(<<"MX">>),
      vote_average_min |-> IF cs["vote_average_min"] = "absent"
                           THEN (IF v = "a" THEN None ELSE Some(0))
                           ELSE Some(70),
      with_people |-> IF cs["with_people"] = "absent" THEN <<>>
                      ELSE IF v = "a" THEN << [int |-> 525] >>
                      ELSE << [int |-> 9], [str |-> <<"n","O","L","A","N">>] >>,
      universes |-> IF cs["universes"] = "absent" THEN <<>>
                    ELSE << <<"B","a","t","m","a","n">> >>,
      exclude_keywords |-> IF cs["exclude_keywords"] = "absent" THEN <<>>
                           ELSE << <<"G","o","r","e">> >>,
      title_contains |-> IF cs["title_contains"] = "absent" THEN <<>>
                         ELSE IF v = "a" THEN << <<"s","t","a","r"," ","W","A","R","S">> >>
                         ELSE << <<"E","p","i","s","o","d","e"," ","1">> >> ]

\* no category declared
NoFilters == [cat \in Categories |-> "absent"]

\* a 1985 movie with genre 28 and rating 8.0
ExampleMovie ==
    [MkContent(NoFilters, "a") EXCEPT !.year = Some(1985), !.genres = <<28>>,
                                      !.vote_average = 80]

\* a slot declaring genres [28] and decade [1980, 1989]
ExampleSlotMatch ==
    [MkSlot(NoFilters, "a") EXCEPT !.genre_ids = <<28>>, !.decade = Some(<<1980, 1989>>)]

\* a slot declaring genres [18]
ExampleSlotMiss == [MkSlot(NoFilters, "a") EXCEPT !.genre_ids = <<18>>]

\* the two example slots with the outcome of each category on ExampleMovie
ExampleInputs ==
    { [cs |-> [NoFilters EXCEPT !["genres"] = "pass", !["decade"] = "pass"],
       slot |-> ExampleSlotMatch],
      [cs |-> [NoFilters EXCEPT !["genres"] = "fail"], slot |-> ExampleSlotMiss] }

----------------------------------------------------------------------------
(* The engine as a state machine: one action per operation callers perform *)

MaxOps == 3

MaxPending == 1

\* the dates callers ask schedules for: a day, and the two days that end and
\* follow its cooldown window
RequestDates == {0, CooldownDays - 1, CooldownDays}

\* the last three operations
Push(tr, e) == IF Len(tr) < 3 THEN Append(tr, e) ELSE Tail(tr) \o <<e>>

\* get_all_channels(): the enabled channels (callers take channels from it)
EnabledChannels == {channels[i] : i \in {k \in 1..Len(channels) : channels[k].enabled}}

PlacedBy(channel, target_date, programs) ==
    {<<channel.id, target_date, programs[i].tmdb_id, programs[i].content_type>> :
        i \in 1..Len(programs)}

MatcherIdle ==
    /\ m_case = [cat \in Categories |-> "absent"]
    /\ m_content = Movie1
    /\ m_slot = ParseSlot(<<>>)
    /\ m_eligible = <<>>

\* ScheduleEngine.__init__ (lines 27-42) over a given template document and a
\* given data/cooldown.json: the channels of the template, the persisted pool
\* if there is one, no schedules, no usage, the cooldown map the file holds
EngineStartOver(t, cooldown_file) ==
    /\ template = t
    /\ channels = load_channel_templates(<<>>, TemplateDocs[t])
    /\ global_pool \in {<<>>, PersistedPool}
    /\ pool_store = global_pool
    /\ schedule_cache = <<>>
    /\ content_usage = <<>>
    /\ recently_played = load_cooldown_data(cooldown_file)
    /\ cooldown_store = cooldown_file
    /\ pending = {}
    /\ trail = <<>>
    /\ placed = {}
    /\ nops = 0

\* the engine constructed over document 1
EngineStart(cooldown_file) == EngineStartOver(1, cooldown_file)

\* the engine constructed with no cooldown file on disk
EngineInit == EngineStart(<<>>)

\* no discovery call in progress
DiscoverIdle == disc = [pc |-> "idle"]

\* no detection call in progress
DetectIdle == det = [pc |-> "idle"]

Init == EngineInit /\ MatcherIdle /\ DiscoverIdle /\ DetectIdle

\* the rest of generate_schedule_for_date from the cache check on (no
\* suspension point), for a call that finds pool in memory
RunGenerate(channel, target_date, pool, awaited) ==
    \E g \in {generate_schedule(channel, target_date, pool, schedule_cache,
                                content_usage, recently_played)} :
       /\ global_pool' = pool
       /\ schedule_cache' = g.cache
       /\ content_usage' = g.usage
       /\ recently_played' = g.played
       /\ cooldown_store' = IF g.cached THEN cooldown_store
                            ELSE save_cooldown_data(g.played)
       /\ placed' = IF g.cached THEN placed
                    ELSE placed \cup PlacedBy(channel, target_date, g.result)
       /\ trail' = Push(trail, [ op |-> "generate",
                                 channel_id |-> channel.id,
                                 date |-> target_date,
                                 awaited |-> awaited,
                                 cached |-> g.cached,
                                 clean_before |-> content_usage = <<>> /\ schedule_cache = <<>>,
                                 same_cooldown |-> g.played = recently_played,
                                 fills |-> g.fills,
                                 result |-> g.result ])

\* generate_schedule_for_date(channel, target_date) with the pool in memory
GenerateSchedule ==
    /\ nops < MaxOps
    /\ global_pool # <<>>
    /\ \E channel \in EnabledChannels : \E target_date \in RequestDates :
          RunGenerate(channel, target_date, global_pool, FALSE)
    /\ nops' = nops + 1
    /\ UNCHANGED <<template, channels, pool_store, pending>>
    /\ UNCHANGED <<match_vars, disc, det>>

\* generate_schedule_for_date with an empty pool: the call is suspended in
\* "await self.build_global_pool()" (lines 524-525, 63)
GenerateAwaitBuild ==
    /\ nops < MaxOps
    /\ global_pool = <<>>
    /\ Cardinality(pending) < MaxPending
    /\ \E channel \in EnabledChannels : \E target_date \in RequestDates :
          /\ [channel |-> channel, date |-> target_date] \notin pending
          /\ pending' = pending \cup {[channel |-> channel, date |-> target_date]}
          /\ trail' = Push(trail, [ op |-> "generate_await", channel_id |-> channel.id,
                                    date |-> target_date ])
    /\ nops' = nops + 1
    /\ UNCHANGED <<template, channels, global_pool, pool_store, schedule_cache,
                   content_usage, recently_played, placed>>
    /\ UNCHANGED <<match_vars, disc, det>>
    /\ UNCHANGED cooldown_store

\* build_content_pool returns: the suspended call merges the result into the
\* pool (lines 65-77) and goes on to the cache check with the channel object
\* it was given
GenerateResume ==
    /\ \E call \in pending : \E built \in BuildResults :
          /\ RunGenerate(call.channel, call.date, MergeBuilt(global_pool, built), TRUE)
          /\ pool_store' = MergeBuilt(global_pool, built)
          /\ pending' = pending \ {call}
    /\ nops' = nops
    /\ UNCHANGED <<template, channels>>
    /\ UNCHANGED <<match_vars, disc, det>>

\* build_global_pool() called at startup (main.py:48)
BuildGlobalPool ==
    /\ nops < MaxOps
    /\ \E built \in BuildResults :
          /\ global_pool' = MergeBuilt(global_pool, built)
          /\ pool_store' = MergeBuilt(global_pool, built)
          /\ trail' = Push(trail, [op |-> "build_global_pool", offered |-> Len(built)])
    /\ nops' = nops + 1
    /\ UNCHANGED <<template, channels, schedule_cache, content_usage,
                   recently_played, pending, placed>>
    /\ UNCHANGED <<match_vars, disc, det>>
    /\ UNCHANGED cooldown_store

\* discover_content_for_filters(tmdb_client, filters, max_results) takes no
\* origin_channel_id (content_pool_builder.py:72-76)
DiscoverAcceptsOriginChannel == FALSE

\* expand_pool_for_all_channels (lines 104-149): the first slot of the first
\* enabled channel calls discover_content_for_filters(...,
\* origin_channel_id=channel.id), which raises TypeError before anything is
\* merged; with no such slot the loop ends without a change
ExpandPoolForAllChannels ==
    /\ nops < MaxOps
    /\ \E ch \in EnabledChannels : ch.slots # <<>>
    /\ ~DiscoverAcceptsOriginChannel
    /\ UNCHANGED engine_vars
    /\ UNCHANGED <<match_vars, disc, det>>
    /\ UNCHANGED cooldown_store

\* lines 135-145 and 184-194: the results of one discovery merged into the
\* pool; a record already in the pool only gains the channel id
RECURSIVE MergeDiscovered(_, _, _)
MergeDiscovered(pool, results, channel_id) ==
    IF results = <<>> THEN pool
    ELSE LET metadata == Head(results)
             found == {k \in 1..Len(pool) : ContentKey(pool[k]) = ContentKey(metadata)}
             existing == CHOOSE k \in found : \A j \in found : k <= j
         IN MergeDiscovered(
               IF found = {} THEN Append(pool, metadata)
               ELSE IF channel_id \in ToSet(pool[existing].origin_channels) THEN pool
               ELSE [pool EXCEPT ![existing].origin_channels = Append(@, channel_id)],
               Tail(results), channel_id)

\* the slot loop of an expansion for one channel (lines 119-145, 168-194): the
\* first slot's call of discover_content_for_filters raises TypeError;
\* discovered counts the slots whose discovery returned
ExpandChannel(pool, channel, results) ==
    IF channel.slots = <<>>
    THEN [raised |-> FALSE, pool |-> pool, discovered |-> 0]
    ELSE IF ~DiscoverAcceptsOriginChannel
    THEN [raised |-> TRUE, pool |-> pool, discovered |-> 0]
    ELSE [raised |-> FALSE, pool |-> MergeDiscovered(pool, results, channel.id),
          discovered |-> Len(channel.slots)]

\* the channel loop of expand_pool_for_all_channels (lines 112-145) from
\* channel number i on: disabled channels are skipped
RECURSIVE ExpandAll(_, _, _, _)
ExpandAll(out, chs, i, results) ==
    IF i > Len(chs) \/ out.raised THEN out
    ELSE IF ~chs[i].enabled THEN ExpandAll(out, chs, i + 1, results)
    ELSE LET one == ExpandChannel(out.pool, chs[i], results)
         IN ExpandAll([raised |-> one.raised, pool |-> one.pool,
                       discovered |-> out.discovered + one.discovered],
                      chs, i + 1, results)

\* expand_pool_for_channel(channel_id) (lines 151-198), as the channel
\* handlers schedule it (channel_management.py:48, 76); the pool is saved when
\* items were added
ExpandPoolForChannel ==
    /\ nops < MaxOps
    /\ \E channel_id \in ToSet(ChannelIds) : \E results \in BuildResults :
          LET found == {k \in 1..Len(channels) : channels[k].id = channel_id}
              channel == channels[CHOOSE k \in found : \A j \in found : k <= j]
              out == IF found = {}
                     THEN [raised |-> FALSE, pool |-> global_pool, discovered |-> 0]
                     ELSE ExpandChannel(global_pool, channel, results)
          IN /\ global_pool' = out.pool
             /\ pool_store' = IF Len(out.pool) > Len(global_pool) THEN out.pool
                              ELSE pool_store
             /\ trail' = Push(trail, [ op |-> "expand_pool_for_channel",
                                       channel_id |-> channel_id,
                                       found |-> found # {},
                                       slots |-> IF found = {} THEN 0
                                                 ELSE Len(channel.slots),
                                       raised |-> out.raised,
                                       discovered |-> out.discovered,
                                       offered |-> IF out.discovered > 0 THEN Len(results) ELSE 0 ])
    /\ nops' = nops + 1
    /\ UNCHANGED <<template, channels, schedule_cache, content_usage,
                   recently_played, pending, placed>>
    /\ UNCHANGED <<match_vars, disc, det>>
    /\ UNCHANGED cooldown_store

\* (variant) reload without "self.channels = []"
ReloadBase_keep(chs) == chs

\* line 91
ReloadBase(chs) == <<>>

\* reload_channels (lines 89-94)
ReloadChannels ==
    /\ nops < MaxOps
    /\ channels' = load_channel_templates(ReloadBase(channels), TemplateDocs[template])
    /\ schedule_cache' = <<>>
    /\ trail' = Push(trail, [ op |-> "reload_channels",
                              same_channels |-> channels' = channels ])
    /\ nops' = nops + 1
    /\ UNCHANGED <<template, global_pool, pool_store, content_usage, recently_played,
                   pending, placed>>
    /\ UNCHANGED <<match_vars, disc, det>>
    /\ UNCHANGED cooldown_store

\* the slots of the enabled channels among the first n of chs
RECURSIVE SlotCount(_, _)
SlotCount(chs, n) ==
    IF n = 0 THEN 0
    ELSE SlotCount(chs, n - 1) + (IF chs[n].enabled THEN Len(chs[n].slots) ELSE 0)

\* reload_and_discover (lines 96-102), scheduled by POST /reload
\* (channel_management.py:98-102): reload_channels, then
\* expand_pool_for_all_channels, then _save_content_pool unless the expansion
\* raised
ReloadAndDiscover ==
    /\ nops < MaxOps
    /\ \E results \in BuildResults :
          \E reloaded \in {load_channel_templates(ReloadBase(channels),
                                                   TemplateDocs[template])} :
             LET out == ExpandAll([raised |-> FALSE, pool |-> global_pool,
                                   discovered |-> 0], reloaded, 1, results)
             IN /\ channels' = reloaded
                /\ schedule_cache' = <<>>
                /\ global_pool' = out.pool
                /\ pool_store' = IF out.raised THEN pool_store ELSE out.pool
                /\ trail' = Push(trail, [ op |-> "reload_and_discover",
                                          raised |-> out.raised,
                                          discovered |-> out.discovered,
                                          saved |-> ~out.raised,
                                          enabled_slots |-> SlotCount(reloaded, Len(reloaded)),
                                          offered |-> IF out.discovered > 0 THEN Len(results) ELSE 0 ])
    /\ nops' = nops + 1
    /\ UNCHANGED <<template, content_usage, recently_played, pending, placed>>
    /\ UNCHANGED <<match_vars, disc, det>>
    /\ UNCHANGED cooldown_store

\* the template file rewritten by a channel-management handler
\* (channel_management.py:43, 71, 90)
WriteTemplate ==
    /\ nops < MaxOps
    /\ \E t \in EditedTemplates :
          /\ t # template
          /\ template' = t
          /\ trail' = Push(trail, [op |-> "write_template", template |-> t])
    /\ nops' = nops + 1
    /\ UNCHANGED <<channels, global_pool, pool_store, schedule_cache, content_usage,
                   recently_played, pending, placed>>
    /\ UNCHANGED <<match_vars, disc, det>>
    /\ UNCHANGED cooldown_store

\* engine._clear_usage_for_date(date), as get_guide does (epg.py:69-71), for a
\* date that has usage recorded (for any other date the call changes nothing)
ClearUsageForDate ==
    /\ nops < MaxOps
    /\ \E target_date \in RequestDates :
          /\ \E key \in DOMAIN content_usage : key[1] = target_date
          /\ content_usage' = clear_usage_for_date(content_usage, target_date)
          /\ trail' = Push(trail, [op |-> "clear_usage_for_date", date |-> target_date])
    /\ nops' = nops + 1
    /\ UNCHANGED <<template, channels, global_pool, pool_store, schedule_cache,
                   recently_played, pending, placed>>
    /\ UNCHANGED <<match_vars, disc, det>>
    /\ UNCHANGED cooldown_store

Next ==
    \/ GenerateSchedule
    \/ GenerateAwaitBuild
    \/ GenerateResume
    \/ BuildGlobalPool
    \/ ExpandPoolForAllChannels
    \/ ExpandPoolForChannel
    \/ ReloadChannels
    \/ ReloadAndDiscover
    \/ WriteTemplate
    \/ ClearUsageForDate

Spec == Init /\ [][Next]_vars

----------------------------------------------------------------------------
(* The engine across process restarts: the process ends and a new          *)
(* ScheduleEngine is constructed over the files the old one left            *)
(* (schedule_engine.py:27-42).                                              *)

\* __init__: empty cache and usage, then _load_channel_templates,
\* _load_content_pool and _load_cooldown_data; calls that were suspended in
\* the old process are gone
Restart ==
    /\ nops < MaxOps
    /\ channels' = load_channel_templates(<<>>, TemplateDocs[template])
    /\ global_pool' = load_content_pool(save_content_pool(pool_store))
    /\ schedule_cache' = <<>>
    /\ content_usage' = <<>>
    /\ recently_played' = load_cooldown_data(cooldown_store)
    /\ pending' = {}
    /\ trail' = Push(trail, [op |-> "restart"])
    /\ nops' = nops + 1
    /\ UNCHANGED <<template, pool_store, cooldown_store, placed>>
    /\ UNCHANGED <<match_vars, disc, det>>

\* the operations that write the pool file, the usage map and the cooldown
\* map, called with no generation suspended, and the restart
\* data/cooldown.json when the first engine is constructed: absent, or left
\* by an earlier process that placed every title of the pool on channel A
\* for day 0
CooldownFiles ==
    {<<>>, save_cooldown_data("A" :> (1 :> 0 @@ 2 :> 0 @@ 3 :> 0))}

InitRestart ==
    /\ \E cooldown_file \in CooldownFiles : EngineStart(cooldown_file)
    /\ MatcherIdle
    /\ DiscoverIdle
    /\ DetectIdle

NextRestart ==
    \/ GenerateSchedule
    \/ BuildGlobalPool
    \/ ClearUsageForDate
    \/ Restart

SpecRestart == InitRestart /\ [][NextRestart]_vars

----------------------------------------------------------------------------
(* The guide and schedule requests of routers/epg.py, served by one engine   *)
(* whose template document has no slot that crosses midnight.               *)

\* sorted(..., key=lambda x: x.priority, reverse=True): stable
RECURSIVE InsertByPriority(_, _)
InsertByPriority(sorted, c) ==
    IF sorted = <<>> THEN <<c>>
    ELSE IF Head(sorted).priority >= c.priority
         THEN <<Head(sorted)>> \o InsertByPriority(Tail(sorted), c)
         ELSE <<c>> \o sorted

RECURSIVE SortByPriority(_)
SortByPriority(chs) ==
    IF chs = <<>> THEN <<>>
    ELSE InsertByPriority(SortByPriority(SubSeq(chs, 1, Len(chs) - 1)), chs[Len(chs)])

\* get_all_channels() (schedule_engine.py:603-607)
get_all_channels(chs) == SortByPriority(SelectSeq(chs, LAMBDA c : c.enabled))

\* get_programs_in_range (schedule_engine.py:591-601)
get_programs_in_range(schedule, start_time, end_time) ==
    SelectSeq(schedule, LAMBDA p : p.end_time > start_time /\ p.start_time < end_time)

\* the time ranges of the guide requests, as minutes after 00:00 of the start
\* date: one that ends on the start date, one that ends on the next day
GuideRanges == {<<18 * 60, 23 * 60>>, <<20 * 60, 26 * 60>>}

\* lines 87-98 for one channel: the programs in range are appended to
\* guide_data; first and second are what generate_schedule_for_date returned
\* and left behind for the start date and, when the range crosses midnight,
\* for the next day
GuideRow(channel, target_date, start_time, end_time, st, crosses, first, second) ==
    [ guide_data |-> Append(st.guide_data,
                            [ channel_id |-> channel.id,
                              cached |-> first.cached,
                              programs |-> get_programs_in_range(
                                               IF crosses THEN first.result \o second.result
                                               ELSE first.result,
                                               start_time, end_time) ]),
      cache |-> second.cache,
      usage |-> second.usage,
      played |-> second.played,
      generated |-> st.generated \/ ~first.cached \/ (crosses /\ ~second.cached),
      placed |-> st.placed
                 \cup (IF first.cached THEN {}
                       ELSE PlacedBy(channel, target_date, first.result))
                 \cup (IF crosses /\ ~second.cached
                       THEN PlacedBy(channel, target_date + 1, second.result)
                       ELSE {}) ]

\* lines 75-85 for one channel: the schedule of the start date and, when the
\* range crosses midnight, of the next day (each call's result is bound once)
GuideChannel(channel, pool, start_time, end_time, st) ==
    LET target_date == DateOf(start_time)
        crosses == DateOf(end_time) > target_date
    IN CHOOSE row \in UNION {
           { GuideRow(channel, target_date, start_time, end_time, st, crosses, first, second) :
               second \in { IF crosses
                            THEN generate_schedule(channel, target_date + 1, pool,
                                                   first.cache, first.usage, first.played)
                            ELSE first } } :
           first \in { generate_schedule(channel, target_date, pool, st.cache, st.usage,
                                         st.played) } } : TRUE

\* the channel loop of get_guide (epg.py:73-98) from channel number i on; st
\* holds guide_data and the engine's cache, usage and cooldown maps
RECURSIVE GuideFrom(_, _, _, _, _, _)
GuideFrom(order, i, pool, start_time, end_time, st) ==
    IF i > Len(order) THEN st
    ELSE CHOOSE out \in { GuideFrom(order, i + 1, pool, start_time, end_time, next) :
                             next \in { GuideChannel(order[i], pool, start_time, end_time,
                                                     st) } } : TRUE

\* GET /guide (epg.py:42-105) with start and end given and the pool in
\* memory: the usage of the dates of the range is cleared, then every enabled
\* channel's schedule is generated or read from the cache
GetGuide ==
    /\ nops < MaxOps
    /\ global_pool # <<>>
    /\ \E target_date \in RequestDates : \E range \in GuideRanges :
          LET start_time == target_date * MinutesPerDay + range[1]
              end_time == target_date * MinutesPerDay + range[2]
              cleared == IF DateOf(end_time) > DateOf(start_time)
                         THEN clear_usage_for_date(
                                  clear_usage_for_date(content_usage, DateOf(start_time)),
                                  DateOf(end_time))
                         ELSE clear_usage_for_date(content_usage, DateOf(start_time))
          IN \E out \in {GuideFrom(get_all_channels(channels), 1, global_pool, start_time,
                                    end_time,
                                    [ guide_data |-> <<>>, cache |-> schedule_cache,
                                      usage |-> cleared, played |-> recently_played,
                                      generated |-> FALSE, placed |-> placed ])} :
                /\ schedule_cache' = out.cache
                /\ content_usage' = out.usage
                /\ recently_played' = out.played
                /\ cooldown_store' = IF out.generated THEN save_cooldown_data(out.played)
                                     ELSE cooldown_store
                /\ placed' = out.placed
                /\ trail' = Push(trail, [ op |-> "get_guide",
                                          date |-> target_date,
                                          start_time |-> start_time,
                                          end_time |-> end_time,
                                          guide |-> out.guide_data ])
    /\ nops' = nops + 1
    /\ UNCHANGED <<template, channels, global_pool, pool_store, pending>>
    /\ UNCHANGED <<match_vars, disc, det>>

\* the engine constructed over document 3
InitGuide ==
    /\ EngineStartOver(3, <<>>)
    /\ MatcherIdle
    /\ DiscoverIdle
    /\ DetectIdle

\* GET /channel/{channel_id}/schedule (epg.py:140-174) is GenerateSchedule
NextGuide ==
    \/ GenerateSchedule
    \/ GetGuide
    \/ BuildGlobalPool

SpecGuide == InitGuide /\ [][NextGuide]_vars

----------------------------------------------------------------------------
(* reload_channels over a template file that may fail to load                *)
(* (schedule_engine.py:89-94, 284-354)                                       *)

\* the loop of lines 295-353 from entry i on: Channel(id=ch_data["id"],
\* name=ch_data["name"], ...) raises KeyError for an entry without the key,
\* after the channels of the entries before it were appended
RECURSIVE LoadEntries(_, _, _)
LoadEntries(chs, ch_list, i) ==
    IF i > Len(ch_list) THEN [raised |-> FALSE, channels |-> chs]
    ELSE IF "id" \notin DOMAIN ch_list[i] \/ "name" \notin DOMAIN ch_list[i]
         THEN [raised |-> TRUE, channels |-> chs]
         ELSE LoadEntries(Append(chs, ParseChannel(ch_list[i])), ch_list, i + 1)

\* _load_channel_templates with the exception it may raise: json.load (line
\* 293) raises for a text that is not JSON, before any channel is appended
try_load_channel_templates(chs, doc) ==
    IF "syntax_error" \in DOMAIN doc THEN [raised |-> TRUE, channels |-> chs]
    ELSE LoadEntries(chs, GetOr(doc, "channels", <<>>), 1)

\* reload_channels (lines 89-94): line 91, then line 92, then line 93 unless
\* line 92 raised
ReloadFromFile ==
    /\ nops < MaxOps
    /\ \E out \in {try_load_channel_templates(ReloadBase(channels), TemplateDocs[template])} :
          /\ channels' = out.channels
          /\ schedule_cache' = IF out.raised THEN schedule_cache ELSE <<>>
          /\ trail' = Push(trail, [ op |-> "reload_channels",
                                    raised |-> out.raised,
                                    same_channels |-> out.channels = channels,
                                    channels_before |-> channels,
                                    cache_before |-> schedule_cache ])
    /\ nops' = nops + 1
    /\ UNCHANGED <<template, global_pool, pool_store, content_usage, recently_played,
                   pending, placed>>
    /\ UNCHANGED <<match_vars, disc, det>>
    /\ UNCHANGED cooldown_store

\* the template file rewritten, by a handler or by hand
WriteTemplateFile ==
    /\ nops < MaxOps
    /\ \E t \in EditedTemplates \cup BrokenTemplates :
          /\ t # template
          /\ template' = t
          /\ trail' = Push(trail, [op |-> "write_template", template |-> t])
    /\ nops' = nops + 1
    /\ UNCHANGED <<channels, global_pool, pool_store, schedule_cache, content_usage,
                   recently_played, pending, placed>>
    /\ UNCHANGED <<match_vars, disc, det>>
    /\ UNCHANGED cooldown_store

NextReload ==
    \/ GenerateSchedule
    \/ BuildGlobalPool
    \/ WriteTemplateFile
    \/ ReloadFromFile

SpecReload == Init /\ [][NextReload]_vars

----------------------------------------------------------------------------
(* The merge of one discovery result into the pool (schedule_engine.py:     *)
(* 135-145, 184-194), applied to the results of one (channel, slot) as      *)
(* discovery builds them.                                                   *)

MergePasses == 2

\* what discover_content_for_filters may return for a slot: up to two of the
\* records _process_item builds (content_pool_builder.py:267-290), which
\* carry no origin_channels
DiscoveryResults ==
    LET fresh == {Movie1, Movie2Fresh, Series3Fresh}
    IN {<<>>} \cup {<<a>> : a \in fresh} \cup {<<a, b>> : a \in fresh, b \in fresh}

\* the loop "for metadata in results" of an expansion of channel
MergeUnit ==
    /\ nops < MergePasses
    /\ \E channel \in EnabledChannels : \E results \in DiscoveryResults :
          /\ global_pool' = MergeDiscovered(global_pool, results, channel.id)
          /\ trail' = Push(trail, [ op |-> "merge", channel_id |-> channel.id,
                                    results |-> results, before |-> global_pool ])
    /\ nops' = nops + 1
    /\ UNCHANGED <<template, channels, pool_store, schedule_cache, content_usage,
                   recently_played, cooldown_store, pending, placed>>
    /\ UNCHANGED <<match_vars, disc, det>>

NextMerge == MergeUnit

SpecMerge == Init /\ [][NextMerge]_vars

----------------------------------------------------------------------------
(* The matcher applied through _filter_pool_by_slot, for the slot's own    *)
(* channel "X" (to which the record is attributed) and for channel "Y".    *)

MatchChannels == {"X", "Y"}

\* the engine as constructed, left alone while the matcher is exercised
EngineIdle ==
    /\ EngineInit
    /\ global_pool = PersistedPool

InitMatch ==
    /\ EngineIdle
    /\ DiscoverIdle
    /\ DetectIdle
    /\ \/ \E x \in ExampleInputs :
             /\ m_case = x.cs
             /\ m_content = ExampleMovie
             /\ m_slot = x.slot
       \/ \E cs \in Cases : \E v \in Variants :
             /\ m_case = cs
             /\ m_content = MkContent(cs, v)
             /\ m_slot = MkSlot(cs, v)
    /\ m_eligible = <<>>

\* eligible = self._filter_pool_by_slot([m_content], m_slot, channel_id=ch)
ApplyFilter ==
    /\ m_eligible = <<>>
    /\ m_eligible' = [ch \in MatchChannels |->
                         filter_pool_by_slot(<<m_content>>, m_slot, Some(ch)) # <<>>]
    /\ UNCHANGED <<m_case, m_content, m_slot>>
    /\ UNCHANGED <<engine_vars, disc, det>>

NextMatch == ApplyFilter

SpecMatch == InitMatch /\ [][NextMatch]_vars

----------------------------------------------------------------------------
(* The country filter of a slot as the template document gives it: the      *)
(* value of "production_countries" is a JSON string holding one country     *)
(* code (models.py:86, generate_channels.py:219), and the record's          *)
(* origin_countries is the list of codes of the catalog item                *)
(* (content_pool_builder.py:283).                                           *)

\* the country codes of the catalog items
CountryCodes == {"MX", "US", "ES"}

\* the characters of a country code, as the template string holds them
CodeChars(code) ==
    CASE code = "MX" -> <<"M","X">>
      [] code = "US" -> <<"U","S">>
      [] code = "ES" -> <<"E","S">>
      [] OTHER -> <<>>

\* the slot entries of the document: no production_countries key, an empty
\* string, or one of the codes
CountrySlotEntries ==
    {[label |-> "any country"]}
    \cup {[label |-> "by country", production_countries |-> CodeChars(code)] :
            code \in CountryCodes \cup {""}}

\* origin_countries of a record: up to two codes
OriginCountryLists ==
    {<<>>} \cup {<<a>> : a \in CountryCodes} \cup {<<a, b>> : a \in CountryCodes, b \in CountryCodes}

\* a movie with the given origin countries and attribution
CountryRecord(origin_countries, origin_channels) ==
    [Content(1, "movie", None, <<18>>, origin_channels) EXCEPT
        !.origin_countries = origin_countries]

InitCountries ==
    /\ EngineIdle
    /\ DiscoverIdle
    /\ DetectIdle
    /\ \E slot_data \in CountrySlotEntries : \E countries \in OriginCountryLists :
          \E origin_channels \in {<<>>, <<"X">>} :
             /\ m_slot = ParseSlot(slot_data)
             /\ m_content = CountryRecord(countries, origin_channels)
             /\ m_case = [NoFilters EXCEPT !["content_type"] = "pass",
                                          !["production_countries"] =
                              IF ~HasSeq(slot_data, "production_countries") THEN "absent"
                              ELSE IF \E cc \in ToSet(countries) :
                                         CodeChars(cc) = slot_data["production_countries"]
                              THEN "pass" ELSE "fail"]
    /\ m_eligible = <<>>

NextCountries == ApplyFilter

SpecCountries == InitCountries /\ [][NextCountries]_vars

----------------------------------------------------------------------------
(* The title/overview search of a slot (content_metadata.py:146-161): the   *)
(* "title_contains" list of a template entry against the title and          *)
(* overview of a record.                                                     *)

\* search terms of the template entries
SearchTerms ==
    { <<"E","p","i","s","o","d","e"," ","1">>,
      <<"E","p","i","s","o","d","i","o"," ","1">>,
      <<"T","h","e"," ","S","e","r","i","e","s">>,
      <<"L","a"," ","s","e","r","i","e">>,
      <<"S","t","a","r","-","W","a","r","s">>,
      <<"m","a","n">> }

\* the title_contains lists: one term, or two
TitleContainsLists ==
    {<<t>> : t \in SearchTerms}
    \cup { <<<<"m","a","n">>, <<"E","p","i","s","o","d","e"," ","1">>>>,
           <<<<"A","l","i","e","n">>, <<"L","a"," ","s","e","r","i","e">>>> }

\* titles and overviews of the records
RecordTitles ==
    { <<"E","p","i","s","o","d","e"," ","1">>,
      <<"E","p","i","s","o","d","i","o"," ","1">>,
      <<"T","h","e"," ","S","e","r","i","e","s"," ","X">>,
      <<"L","a"," ","s","e","r","i","e"," ","X">>,
      <<"S","t","a","r"," ","W","a","r","s",":"," ","A","n","d","o","r">>,
      <<"A","l","i","e","n">> }

RecordOverviews == { <<>>, <<"A"," ","m","a","n"," ","a","n","d"," ","t","h","e"," ","s","e","r","i","e","s">> }

\* a movie with the given title, overview and attribution
TitledRecord(title, overview, origin_channels) ==
    [Content(1, "movie", None, <<18>>, origin_channels) EXCEPT
        !.title = title, !.overview = overview]

InitTitle ==
    /\ EngineIdle
    /\ DiscoverIdle
    /\ DetectIdle
    /\ \E terms \in TitleContainsLists : \E title \in RecordTitles :
          \E overview \in RecordOverviews : \E origin_channels \in {<<>>, <<"X">>} :
             /\ m_slot = ParseSlot([label |-> "by title", title_contains |-> terms])
             /\ m_content = TitledRecord(title, overview, origin_channels)
    /\ m_case = [NoFilters EXCEPT !["content_type"] = "pass",
                                 !["title_contains"] = "declared"]
    /\ m_eligible = <<>>

NextTitle == ApplyFilter

SpecTitle == InitTitle /\ [][NextTitle]_vars

----------------------------------------------------------------------------
(* discover_content_for_filters (content_pool_builder.py:72-234) as a      *)
(* process: every catalog query is a step whose outcome (a response or an  *)
(* exception) the catalog chooses.                                         *)

\* keywords_text[:3]
KeywordLimit == 3

\* items[:20]
KeywordItemLimit == 20

\* rule["title_patterns"][:3]
PatternLimit == 3

\* response.get("results", [])[:10]
PatternItemLimit == 10

\* range(1, 4)
PageLimit == 3

\* s[:n]
Take(s, n) == SubSeq(s, 1, IF Len(s) < n THEN Len(s) ELSE n)

\* the exceptions TMDBClient._request re-raises (tmdb_client.py:83-88)
ClientErrors == {"HTTPStatusError", "ConnectError"}

\* (variant) handlers that catch ValueError only
Caught_value_error_only(exc) == exc = "ValueError"

\* "except Exception": every exception the client raises is an Exception
Caught(exc) == exc \in ClientErrors \cup {"ValueError", "KeyError"}

\* two entries of UNIVERSE_RULES (universe_detector.py:10-77)
UniverseRules ==
    ("James Bond" :> [title_patterns |-> <<"James Bond", "007">>])
    @@ ("Matrix" :> [title_patterns |-> <<"Matrix">>])

\* the title-pattern searches of the universe stage in order: unknown
\* universes are skipped, each known one gives its first three patterns
RECURSIVE PatternQueries(_)
PatternQueries(universes) ==
    IF universes = <<>> THEN <<>>
    ELSE (IF Head(universes) \in DOMAIN UniverseRules
             /\ "title_patterns" \in DOMAIN UniverseRules[Head(universes)]
          THEN [n \in 1..Len(Take(UniverseRules[Head(universes)].title_patterns,
                                  PatternLimit)) |->
                   [universe |-> Head(universes),
                    pattern |-> UniverseRules[Head(universes)].title_patterns[n]]]
          ELSE <<>>)
         \o PatternQueries(Tail(universes))

\* An item of a catalog response, with what the catalog does when the item
\* is looked up: providers is the outcome of get_watch_providers ("some",
\* "none", or the exception raised), lookups the outcome of the detail,
\* keyword and credit requests ("ok" or the exception raised); by_title says
\* that the item's own title or overview satisfies the stage's validation,
\* by_lookup that its looked-up keywords or details do.
CatalogItem(id, providers, lookups, by_title, by_lookup) ==
    [id |-> id, providers |-> providers, lookups |-> lookups,
     by_title |-> by_title, by_lookup |-> by_lookup]

CatalogResponses ==
    { <<>>,
      << CatalogItem(1, "some", "ok", TRUE, FALSE),
         CatalogItem(2, "ConnectError", "ok", TRUE, TRUE) >>,
      << CatalogItem(2, "HTTPStatusError", "ok", TRUE, TRUE),
         CatalogItem(3, "some", "HTTPStatusError", TRUE, FALSE) >>,
      << CatalogItem(4, "some", "ConnectError", FALSE, TRUE),
         CatalogItem(5, "none", "ok", TRUE, TRUE),
         CatalogItem(1, "some", "ok", FALSE, TRUE) >> }

\* what a catalog query does: it raises, or it answers
QueryOutcomes ==
    { [raises |-> TRUE, exc |-> e, items |-> <<>>] : e \in ClientErrors }
    \cup { [raises |-> FALSE, exc |-> "", items |-> r] : r \in CatalogResponses }

\* _get_providers (lines 293-318): the providers found, [] when the lookup
\* raises and the handler catches; exc is an exception that escapes
get_providers(item) ==
    IF item.providers = "some" THEN [providers |-> <<"provider">>, exc |-> None]
    ELSE IF item.providers = "none" THEN [providers |-> <<>>, exc |-> None]
    ELSE IF Caught(item.providers) THEN [providers |-> <<>>, exc |-> None]
    ELSE [providers |-> <<>>, exc |-> Some(item.providers)]

\* _process_item (lines 237-290) with detect_universes
\* (universe_detector.py:98-118), _get_keywords and _get_director: a failed
\* lookup leaves the record without the looked-up data
process_item(item) ==
    IF item.lookups = "ok"
    THEN [metadata |-> [tmdb_id |-> item.id, detailed |-> TRUE,
                        validated |-> item.by_title \/ item.by_lookup],
          exc |-> None]
    ELSE IF Caught(item.lookups)
    THEN [metadata |-> [tmdb_id |-> item.id, detailed |-> FALSE,
                        validated |-> item.by_title],
          exc |-> None]
    ELSE [metadata |-> <<>>, exc |-> Some(item.lookups)]

\* (variant) a loop goes on until the list is longer than max_results
ResultsFull_when_over(results, max_results) == Len(results) > max_results

\* the test every loop of discover_content_for_filters makes before it goes
\* on (lines 97, 109, 143, 154, 162, 189, 212)
ResultsFull(results, max_results) == Len(results) >= max_results

\* the item loop of a stage (lines 108-128, 161-177, 211-226) from item
\* number n on; validate says whether the stage checks the record against
\* the keyword or universe before keeping it.  acc holds results, seen_ids
\* and the exception that left the loop, if any.
RECURSIVE ProcessItems(_, _, _, _, _)
ProcessItems(acc, items, n, max_results, validate) ==
    IF n > Len(items) \/ ~IsNone(acc.exc) THEN acc
    ELSE IF ResultsFull(acc.results, max_results) THEN acc
    ELSE IF items[n].id \in acc.seen_ids
    THEN ProcessItems(acc, items, n + 1, max_results, validate)
    ELSE LET found == get_providers(items[n])
             made == process_item(items[n])
         IN IF ~IsNone(found.exc) THEN [acc EXCEPT !.exc = found.exc]
            ELSE IF found.providers = <<>>
            THEN ProcessItems(acc, items, n + 1, max_results, validate)
            ELSE IF ~IsNone(made.exc) THEN [acc EXCEPT !.exc = made.exc]
            ELSE IF validate /\ ~made.metadata.validated
            THEN ProcessItems(acc, items, n + 1, max_results, validate)
            ELSE ProcessItems(
                    [acc EXCEPT !.results = Append(@, [tmdb_id |-> made.metadata.tmdb_id,
                                                       detailed |-> made.metadata.detailed]),
                                !.seen_ids = @ \cup {items[n].id}],
                    items, n + 1, max_results, validate)

\* one query of a stage inside its try block: the request, then the item
\* loop over the first item_limit items; exc is the exception the try block
\* ends with, if any
RunQuery(d, outcome, item_limit, validate) ==
    IF outcome.raises
    THEN [results |-> d.results, seen_ids |-> d.seen_ids, exc |-> Some(outcome.exc)]
    ELSE ProcessItems([results |-> d.results, seen_ids |-> d.seen_ids, exc |-> None],
                      Take(outcome.items, item_limit), 1, d.max_results, validate)

\* the arguments of the calls made in the model
DiscoverKeywords == {<<>>, <<"space">>, <<"space", "moon", "mars", "orbit">>}

DiscoverUniverses == {<<>>, <<"James Bond">>, <<"Muppets", "Matrix">>}

DiscoverMaxResults == {1, 3}

\* discover_content_for_filters(tmdb_client, filters, max_results) entered
\* (lines 83-86)
InitDiscover ==
    /\ EngineIdle
    /\ MatcherIdle
    /\ DetectIdle
    /\ \E kw \in DiscoverKeywords : \E un \in DiscoverUniverses :
          \E mx \in DiscoverMaxResults :
             disc = [ pc |-> "keywords", i |-> 1,
                      keywords |-> kw, universes |-> un, max_results |-> mx,
                      results |-> <<>>, seen_ids |-> {},
                      queried |-> {}, failed |-> {} ]

\* len(results) >= max_results
DiscoverFull(d) == ResultsFull(d.results, d.max_results)

\* the state after a query of a stage: the exception is caught by the
\* stage's handler, or it leaves the function
AfterQuery(d, label, run, next_pc, next_i) ==
    IF ~IsNone(run.exc) /\ ~Caught(Val(run.exc))
    THEN [d EXCEPT !.pc = "raised", !.results = run.results, !.seen_ids = run.seen_ids,
                   !.queried = @ \cup {label}, !.failed = @ \cup {label}]
    ELSE [d EXCEPT !.pc = next_pc, !.i = next_i,
                   !.results = run.results, !.seen_ids = run.seen_ids,
                   !.queried = @ \cup {label},
                   !.failed = IF IsNone(run.exc) THEN @ ELSE @ \cup {label}]

\* lines 94-134: the search for one keyword, in its own try block
KeywordSearch ==
    /\ disc.pc = "keywords"
    /\ disc.i <= Len(Take(disc.keywords, KeywordLimit))
    /\ ~DiscoverFull(disc)
    /\ \E outcome \in QueryOutcomes :
          disc' = AfterQuery(disc, <<"keyword", disc.i>>,
                             RunQuery(disc, outcome, KeywordItemLimit, TRUE),
                             "keywords", disc.i + 1)
    /\ UNCHANGED <<engine_vars, match_vars, det>>

\* the keyword loop is over (no keyword left, or lines 97-98)
KeywordsDone ==
    /\ disc.pc = "keywords"
    /\ disc.i > Len(Take(disc.keywords, KeywordLimit)) \/ DiscoverFull(disc)
    /\ disc' = [disc EXCEPT !.pc = "universes", !.i = 1]
    /\ UNCHANGED <<engine_vars, match_vars, det>>

\* lines 137-182: the search for one title pattern, in its own try block
UniverseSearch ==
    /\ disc.pc = "universes"
    /\ disc.i <= Len(PatternQueries(disc.universes))
    /\ ~DiscoverFull(disc)
    /\ \E outcome \in QueryOutcomes :
          disc' = AfterQuery(disc, <<"pattern", disc.i>>,
                             RunQuery(disc, outcome, PatternItemLimit, TRUE),
                             "universes", disc.i + 1)
    /\ UNCHANGED <<engine_vars, match_vars, det>>

\* the universe loop is over (lines 143-144, 154-155 or no pattern left)
UniversesDone ==
    /\ disc.pc = "universes"
    /\ disc.i > Len(PatternQueries(disc.universes)) \/ DiscoverFull(disc)
    /\ disc' = [disc EXCEPT !.pc = "discover", !.i = 1]
    /\ UNCHANGED <<engine_vars, match_vars, det>>

\* lines 185-231: one page of discover_by_slot; the try block spans the
\* page loop, so an exception ends the stage, and so does an empty page
DiscoverPage ==
    /\ disc.pc = "discover"
    /\ disc.i <= PageLimit
    /\ ~DiscoverFull(disc)
    /\ \E outcome \in QueryOutcomes :
          \E run \in {RunQuery(disc, outcome, Len(outcome.items), FALSE)} :
             disc' = AfterQuery(disc, <<"page", disc.i>>, run,
                                IF ~IsNone(run.exc) \/ outcome.items = <<>>
                                THEN "return" ELSE "discover",
                                disc.i + 1)
    /\ UNCHANGED <<engine_vars, match_vars, det>>

\* the page loop is over (lines 189-190 or no page left)
DiscoverDone ==
    /\ disc.pc = "discover"
    /\ disc.i > PageLimit \/ DiscoverFull(disc)
    /\ disc' = [disc EXCEPT !.pc = "return"]
    /\ UNCHANGED <<engine_vars, match_vars, det>>

\* line 234: return results
DiscoverReturn ==
    /\ disc.pc = "return"
    /\ disc' = [disc EXCEPT !.pc = "returned"]
    /\ UNCHANGED <<engine_vars, match_vars, det>>

NextDiscover ==
    \/ KeywordSearch
    \/ KeywordsDone
    \/ UniverseSearch
    \/ UniversesDone
    \/ DiscoverPage
    \/ DiscoverDone
    \/ DiscoverReturn

SpecDiscover == InitDiscover /\ [][NextDiscover]_vars

----------------------------------------------------------------------------
(* detect_universes (universe_detector.py:80-170), called by _process_item  *)
(* for every catalog item that discovery keeps                               *)
(* (content_pool_builder.py:244).                                            *)

\* three entries of UNIVERSE_RULES (universe_detector.py:11-31), in the order
\* the dict holds them
UniverseNames == <<"Star Wars", "Marvel Cinematic Universe", "DC Extended Universe">>

DetectionRules ==
    ("Star Wars" :>
        [ collection_ids |-> <<10>>,
          keywords |-> << <<"s","t","a","r"," ","w","a","r","s">>, <<"j","e","d","i">>, <<"s","i","t","h">>, <<"s","k","y","w","a","l","k","e","r">>, <<"m","a","n","d","a","l","o","r","i","a","n">> >>,
          title_patterns |-> << <<"S","t","a","r"," ","W","a","r","s">>, <<"M","a","n","d","a","l","o","r","i","a","n">>, <<"A","n","d","o","r">>, <<"A","h","s","o","k","a">>, <<"B","o","b","a"," ","F","e","t","t">>, <<"O","b","i","-","W","a","n">> >> ])
    @@ ("Marvel Cinematic Universe" :>
        [ collection_ids |-> <<86311, 131295, 131292, 618529>>,
          keywords |-> << <<"m","a","r","v","e","l"," ","c","i","n","e","m","a","t","i","c"," ","u","n","i","v","e","r","s","e">>, <<"m","c","u">>, <<"a","v","e","n","g","e","r","s">> >>,
          companies |-> <<420>>,
          title_patterns |-> << <<"A","v","e","n","g","e","r","s">>, <<"I","r","o","n"," ","M","a","n">>, <<"C","a","p","t","a","i","n"," ","A","m","e","r","i","c","a">>, <<"T","h","o","r">>, <<"G","u","a","r","d","i","a","n","s">> >> ])
    @@ ("DC Extended Universe" :>
        [ keywords |-> << <<"d","c"," ","e","x","t","e","n","d","e","d"," ","u","n","i","v","e","r","s","e">>, <<"d","c","e","u">> >>,
          companies |-> <<9993, 429>>,
          title_patterns |-> << <<"B","a","t","m","a","n">>, <<"S","u","p","e","r","m","a","n">>, <<"W","o","n","d","e","r"," ","W","o","m","a","n">>, <<"J","u","s","t","i","c","e"," ","L","e","a","g","u","e">>, <<"A","q","u","a","m","a","n">> >> ])

\* the characters the regex class \w matches
WordChars == ToSet(UpperChars) \cup ToSet(LowerChars) \cup ToSet(DigitChars) \cup {"_"}

IsWordAt(s, k) == k \in 1..Len(s) /\ s[k] \in WordChars

\* \b between s[k] and s[k + 1]: a word character on exactly one side
BoundaryAt(s, k) == IsWordAt(s, k) # IsWordAt(s, k + 1)

\* (variant) the pattern is searched without the word boundaries
ReSearchWord_anywhere(pattern, text) == StrIn(pattern, text)

\* re.search(rf"\b{re.escape(pattern_lower)}\b", text) (lines 157-158)
ReSearchWord(pattern, text) ==
    \E k \in 0..(Len(text) - Len(pattern)) :
       /\ BoundaryAt(text, k)
       /\ OccursAt(text, pattern, k)
       /\ BoundaryAt(text, k + Len(pattern))

\* content_data.get(a) or content_data.get(b, ""), for optional str values
GetEither(a, b) ==
    IF ~IsNone(a) /\ Val(a) # <<>> THEN Val(a)
    ELSE IF ~IsNone(b) THEN Val(b) ELSE <<>>

\* lines 98-130: what the function knows of the item once the lookups have
\* answered or failed.  A failed detail request leaves detailed_data =
\* content_data, which has neither collection nor companies; a failed
\* keyword request leaves no keywords.
DetectionData(item) ==
    [ title |-> StrLower(GetEither(item.title, item.name)),
      original_title |-> StrLower(GetEither(item.original_title, item.original_name)),
      keywords |-> IF item.keywords_ok
                   THEN [i \in 1..Len(item.keywords) |-> StrLower(item.keywords[i])]
                   ELSE <<>>,
      collection_id |-> IF item.details_ok THEN item.belongs_to_collection ELSE None,
      company_ids |-> IF item.details_ok THEN item.production_companies ELSE <<>> ]

\* lines 134-165: the four checks of one universe, each made only if the
\* ones before it did not match
RuleMatched(rules, data) ==
    LET by_collection ==
            /\ ~IsNone(data.collection_id) /\ Val(data.collection_id) # 0
            /\ "collection_ids" \in DOMAIN rules
            /\ Val(data.collection_id) \in ToSet(rules.collection_ids)
        by_keyword ==
            /\ "keywords" \in DOMAIN rules
            /\ \E rule_keyword \in ToSet(rules.keywords) :
                  \E content_keyword \in ToSet(data.keywords) :
                     StrIn(rule_keyword, content_keyword)
        by_title ==
            /\ "title_patterns" \in DOMAIN rules
            /\ \E pattern \in ToSet(rules.title_patterns) :
                  \/ ReSearchWord(StrLower(pattern), data.title)
                  \/ ReSearchWord(StrLower(pattern), data.original_title)
        by_company ==
            /\ "companies" \in DOMAIN rules
            /\ \E company_id \in ToSet(data.company_ids) :
                  company_id \in ToSet(rules.companies)
    IN IF by_collection THEN TRUE
       ELSE IF by_keyword THEN TRUE
       ELSE IF by_title THEN TRUE
       ELSE by_company

\* the loop over UNIVERSE_RULES from entry i on
RECURSIVE DetectFrom(_, _)
DetectFrom(data, i) ==
    IF i > Len(UniverseNames) THEN <<>>
    ELSE (IF RuleMatched(DetectionRules[UniverseNames[i]], data)
          THEN <<UniverseNames[i]>> ELSE <<>>)
         \o DetectFrom(data, i + 1)

\* detected_universes, the first component of the value returned
detect_universes(item) == DetectFrom(DetectionData(item), 1)

\* titles (or names) and original titles of the catalog items
ItemTitles ==
    { <<"A","n","d","o","r">>,
      <<"R","e","s","p","l","a","n","d","o","r">>,
      <<"S","t","a","r"," ","W","a","r","s",":"," ","A","n","d","o","r">>,
      <<"I","r","o","n"," ","M","a","n"," ","3">>,
      <<"I","r","o","n","m","a","n">>,
      <<"T","H","O","R"," ","v","s"," ","B","a","t","m","a","n">> }

ItemOriginalTitles ==
    { <<>>,
      <<"A","n","d","o","r">>,
      <<"E","l"," ","r","e","s","p","l","a","n","d","o","r">> }

\* keyword names as the keyword request returns them
ItemKeywords ==
    { <<>>, << <<"J","e","d","i"," ","K","n","i","g","h","t">> >>, << <<"d","c","e","u">>, <<"s","p","a","c","e">> >>, << <<"s","m","i","t","h">> >> }

ItemCollections == {None, Some(10), Some(86311), Some(999)}

ItemCompanies == {<<>>, <<420>>, <<7, 429>>}

\* a movie item carries "title" and "original_title", a series item "name"
\* and "original_name"; only a movie's details hold a collection
CatalogEntry(kind, title, original, keywords, collection, companies, details_ok, keywords_ok) ==
    [ title |-> IF kind = "movie" THEN Some(title) ELSE None,
      name |-> IF kind = "tv" THEN Some(title) ELSE None,
      original_title |-> IF kind = "movie" THEN Some(original) ELSE None,
      original_name |-> IF kind = "tv" THEN Some(original) ELSE None,
      keywords |-> keywords,
      belongs_to_collection |-> IF kind = "movie" THEN collection ELSE None,
      production_companies |-> companies,
      details_ok |-> details_ok,
      keywords_ok |-> keywords_ok ]

InitDetect ==
    /\ EngineIdle
    /\ MatcherIdle
    /\ DiscoverIdle
    /\ \E kind \in {"movie", "tv"} : \E title \in ItemTitles :
          \E original \in ItemOriginalTitles : \E keywords \in ItemKeywords :
             \E collection \in ItemCollections : \E companies \in ItemCompanies :
                \E details_ok \in BOOLEAN : \E keywords_ok \in BOOLEAN :
                   det = [ pc |-> "call",
                           item |-> CatalogEntry(kind, title, original, keywords, collection,
                                                 companies, details_ok, keywords_ok) ]

\* universes, details = await detect_universes(item, tmdb_client)
DetectUniverses ==
    /\ det.pc = "call"
    /\ det' = [ pc |-> "returned", item |-> det.item,
                universes |-> detect_universes(det.item) ]
    /\ UNCHANGED <<engine_vars, match_vars, disc>>

NextDetect == DetectUniverses

SpecDetect == InitDetect /\ [][NextDetect]_vars

----------------------------------------------------------------------------
(* Claims about the matcher, checked under SpecMatch *)

Applied == m_eligible # <<>>

Phase1Fails == \E cat \in Phase1Categories : m_case[cat] = "fail"

Phase3Fails == \E cat \in Phase3Categories : m_case[cat] = "fail"

\* C5 (attribution bypass): a record attributed to channel X that passes every
\* structural filter of the slot is eligible for the slot on X whatever the
\* thematic filters say, and the same record is not eligible for the same slot
\* on channel Y, to which it is not attributed, as soon as one thematic filter
\* of the slot fails.
C5_AttributionBypass ==
    (Applied /\ ~Phase1Fails) =>
        /\ m_eligible["X"]
        /\ (Phase3Fails => ~m_eligible["Y"])

\* the record passes all five structural filters, fails all six thematic ones,
\* and has been kept for X and dropped for Y
C5_Witness ==
    /\ Applied
    /\ \A cat \in Phase1Categories : m_case[cat] = "pass"
    /\ \A cat \in Phase3Categories : m_case[cat] = "fail"
    /\ m_eligible["X"]
    /\ ~m_eligible["Y"]

\* C6 (filter correctness): a record that fails a structural filter present in
\* the slot is never eligible, neither on the channel it is attributed to (X)
\* nor on another one (Y).
C6_FilterCorrectness ==
    (Applied /\ Phase1Fails) => (~m_eligible["X"] /\ ~m_eligible["Y"])

\* an attributed record that fails only the decade filter, every thematic filter
\* passing, has been dropped for its own channel
C6_Witness ==
    /\ Applied
    /\ m_case["decade"] = "fail"
    /\ \A cat \in Categories \ {"decade"} : m_case[cat] = "pass"
    /\ "X" \in ToSet(m_content.origin_channels)
    /\ ~m_eligible["X"]

\* s is the beginning of t
IsPrefix(s, t) == Len(s) <= Len(t) /\ \A k \in 1..Len(s) : s[k] = t[k]

\* the filter set the slot under test yields for channel Y
FiltersForY == SlotFilters(m_slot, Some("Y"))

\* the one category k of filter set f, applied alone to record c
PassesOnItsOwn(c, f, k) == matches_slot_filters(c, k :> f[k])

\* C13 (AND semantics): for channel Y, to which the record is not attributed,
\* the record is eligible exactly when each category present in the filter set
\* passes when applied alone, which is exactly when no category is one the
\* record was built to fail; the 1985 movie with genre 28 and rating 8.0 is
\* eligible for genres [28] with decade [1980, 1989] and not for genres [18].
C13_AndSemantics ==
    Applied =>
        /\ m_eligible["Y"] <=>
              \A k \in DOMAIN FiltersForY \ {"channel_id"} :
                  PassesOnItsOwn(m_content, FiltersForY, k)
        /\ m_eligible["Y"] <=> ~(Phase1Fails \/ Phase3Fails)
        /\ \A k \in DOMAIN FiltersForY \ {"channel_id"} : m_case[k] # "absent"
        /\ (m_content = ExampleMovie /\ m_slot = ExampleSlotMatch) => m_eligible["Y"]
        /\ (m_content = ExampleMovie /\ m_slot = ExampleSlotMiss) => ~m_eligible["Y"]

\* the example movie has been kept for the slot with genres [28] and decade
\* [1980, 1989] on a channel it is not attributed to
C13_Witness ==
    /\ Applied
    /\ m_content = ExampleMovie
    /\ m_slot = ExampleSlotMatch
    /\ DOMAIN FiltersForY = {"channel_id", "genres", "decade"}
    /\ ~("Y" \in ToSet(m_content.origin_channels))
    /\ m_eligible["Y"]

----------------------------------------------------------------------------
(* Claims about discovery, checked under SpecDiscover *)

\* the number of title-pattern searches the universes argument calls for:
\* up to three per universe that has rules
PatternSearches(universes) ==
    Cardinality({ un \in (1..Len(universes)) \X (1..3) :
                     /\ universes[un[1]] \in DOMAIN UniverseRules
                     /\ un[2] <= Len(UniverseRules[universes[un[1]]].title_patterns) })

\* every stage of the call d was run: each of the first three keywords and
\* each title pattern was searched and the first discover page was asked for,
\* unless max_results records were reached
EveryStageRan(d) ==
    \/ Len(d.results) >= d.max_results
    \/ /\ \A k \in 1..Len(d.keywords) : k <= 3 => <<"keyword", k>> \in d.queried
       /\ \A n \in 1..PatternSearches(d.universes) : <<"pattern", n>> \in d.queried
       /\ <<"page", 1>> \in d.queried

\* C20 (lookup-failure isolation): no step of discover_content_for_filters
\* ends with an exception leaving the function, whatever catalog query or
\* item lookup raised; a step keeps the records collected so far in place; a
\* query that raised adds no record; and the call returns only after every
\* later stage was run.
C20_FailureIsolation ==
    [][ /\ disc'.pc # "raised"
        /\ IsPrefix(disc.results, disc'.results)
        /\ disc.seen_ids \subseteq disc'.seen_ids
        /\ (disc'.failed # disc.failed) => disc'.results = disc.results
        /\ (disc'.pc = "returned") => EveryStageRan(disc') ]_vars

\* the call has returned after a keyword search raised, a title-pattern
\* search answered, and the second discover page raised; the results hold
\* title 3, which came after an item whose provider lookup raised and whose
\* own detail lookup raised, and a record of a later stage
C20_Witness ==
    /\ disc.pc = "returned"
    /\ <<"keyword", 1>> \in disc.failed
    /\ <<"pattern", 1>> \in disc.queried \ disc.failed
    /\ <<"page", 1>> \in disc.queried \ disc.failed
    /\ <<"page", 2>> \in disc.failed
    /\ Len(disc.results) >= 2
    /\ disc.results[1] = [tmdb_id |-> 3, detailed |-> FALSE]

----------------------------------------------------------------------------
(* Claims about the engine, checked under Spec *)

Last(s) == s[Len(s)]

\* a trail entry of a generation that found no cached list
Fresh(e) == e.op = "generate" /\ ~e.cached

\* this step is a call of generate_schedule_for_date running from the cache
\* check to its return
GenerateReturns ==
    /\ nops' # nops \/ pending' # pending
    /\ trail' # <<>>
    /\ Last(trail').op = "generate"

\* this step is a call of reload_channels, directly or from
\* reload_and_discover
ReloadReturns ==
    /\ nops' # nops
    /\ trail' # <<>>
    /\ Last(trail').op \in {"reload_channels", "reload_and_discover"}

\* the programs of a list that start in hour h of date d
StartingIn(programs, d, h) ==
    {programs[i] : i \in {k \in 1..Len(programs) :
                            /\ DateOf(programs[k].start_time) = d
                            /\ HourOf(programs[k].start_time) = h}}

\* C1 (determinism): generate_schedule_for_date(channel, date), then
\* reload_channels with the template unchanged (the channel list it loads is
\* the one it replaced), then generate_schedule_for_date for the same channel
\* and date, with no pool change in between: the second call returns the
\* program sequence the first one returned.
C1_Determinism ==
    \A i \in 1..(Len(trail) - 2) :
        ( /\ Fresh(trail[i])
          /\ trail[i + 1].op = "reload_channels"
          /\ trail[i + 1].same_channels
          /\ Fresh(trail[i + 2])
          /\ ~trail[i + 2].awaited
          /\ trail[i + 2].channel_id = trail[i].channel_id
          /\ trail[i + 2].date = trail[i].date )
        => trail[i + 2].result = trail[i].result

\* C2 (cooldown invariant): a movie that a generated schedule of channel C for
\* date D contains is in no generated schedule of C for a date in D+1 .. D+6.
C2_Cooldown ==
    \A a \in placed : \A b \in placed :
        ( /\ a[4] = "movie" /\ b[4] = "movie"
          /\ a[1] = b[1]
          /\ a[3] = b[3] )
        => b[2] \notin (a[2] + 1)..(a[2] + 6)

\* C3 (hourly cross-channel dedup): among the cached schedules, no catalog
\* item has a program on one channel and a program on another channel that
\* start in the same hour of the same calendar date.
C3_HourlyDedup ==
    \A ka \in DOMAIN schedule_cache : \A kb \in DOMAIN schedule_cache :
        ka[1] # kb[1] =>
            \A i \in 1..Len(schedule_cache[ka]) : \A j \in 1..Len(schedule_cache[kb]) :
                LET p == schedule_cache[ka][i]
                    q == schedule_cache[kb][j]
                IN ~( /\ p.tmdb_id = q.tmdb_id
                      /\ p.content_type = q.content_type
                      /\ DateOf(p.start_time) = DateOf(q.start_time)
                      /\ HourOf(p.start_time) = HourOf(q.start_time) )

\* C4 (slot containment): every program placed while a slot with window
\* [slot_start, slot_end) is filled starts at or after slot_start and before
\* slot_end, and ends at most 15 minutes after slot_end.
C4_SlotContainment ==
    \A i \in 1..Len(trail) :
        Fresh(trail[i]) =>
            \A n \in 1..Len(trail[i].fills) :
                LET fill == trail[i].fills[n]
                IN \A k \in 1..Len(fill.programs) :
                      /\ fill.slot_start <= fill.programs[k].start_time
                      /\ fill.programs[k].start_time < fill.slot_end
                      /\ fill.programs[k].end_time <= fill.slot_end + 15

\* a slot has been filled with a program that ends after the slot does
C4_Witness ==
    \E i \in 1..Len(trail) :
        /\ Fresh(trail[i])
        /\ \E n \in 1..Len(trail[i].fills) :
              \E k \in 1..Len(trail[i].fills[n].programs) :
                 trail[i].fills[n].programs[k].end_time > trail[i].fills[n].slot_end

\* C7 (idempotent cached read): a call of generate_schedule_for_date for a
\* (channel.id, date) that has a cached list returns that list and leaves the
\* schedule cache, the usage buckets and the cooldown map as they were.
C7_CachedRead ==
    [][ ( /\ GenerateReturns
          /\ <<Last(trail').channel_id, Last(trail').date>> \in DOMAIN schedule_cache )
        => ( /\ Last(trail').result
                   = schedule_cache[<<Last(trail').channel_id, Last(trail').date>>]
             /\ UNCHANGED <<schedule_cache, content_usage, recently_played>> ) ]_vars

\* a request has been answered from the cache, with a list that holds programs
C7_Witness ==
    /\ trail # <<>>
    /\ Last(trail).op = "generate"
    /\ Last(trail).cached
    /\ Last(trail).result # <<>>

\* C8 (cache lifecycle): every step other than reload_channels (a generation
\* for any channel and date, a usage clear, a pool build or expansion, a
\* template write) leaves every cached list in the cache, unchanged.
C8_CacheLifecycle ==
    [][ ReloadReturns
        \/ \A key \in DOMAIN schedule_cache :
              /\ key \in DOMAIN schedule_cache'
              /\ schedule_cache'[key] = schedule_cache[key] ]_vars

\* the schedule generated by the first of three operations is still cached
\* after a generation for another key and a usage clear
C8_Witness ==
    /\ Len(trail) = 3
    /\ Fresh(trail[1])
    /\ Fresh(trail[2])
    /\ trail[3].op = "clear_usage_for_date"
    /\ <<trail[1].channel_id, trail[1].date>> # <<trail[2].channel_id, trail[2].date>>
    /\ <<trail[1].channel_id, trail[1].date>> \in DOMAIN schedule_cache
    /\ schedule_cache[<<trail[1].channel_id, trail[1].date>>] = trail[1].result

\* the ids of the channel entries of a template document, in document order
DocumentIds(doc) == [i \in 1..Len(doc.channels) |-> doc.channels[i].id]

\* C9 (reload): when reload_channels has returned, the schedule cache is empty
\* and the channel list is the list parsed from the current template document:
\* one channel per entry, in document order, none left from the previous load.
C9_Reload ==
    (trail # <<>> /\ Last(trail).op = "reload_channels") =>
        /\ schedule_cache = <<>>
        /\ channels = load_channel_templates(<<>>, TemplateDocs[template])
        /\ [i \in 1..Len(channels) |-> channels[i].id] = DocumentIds(TemplateDocs[template])

\* a schedule was generated, the template was rewritten, and the reload has
\* replaced the channels and emptied the cache
C9_Witness ==
    /\ Len(trail) = 3
    /\ Fresh(trail[1])
    /\ trail[1].result # <<>>
    /\ trail[2].op = "write_template"
    /\ trail[3].op = "reload_channels"
    /\ ~trail[3].same_channels
    /\ schedule_cache = <<>>

\* the slots of a generation that start in hour h of its date, end on the same
\* day, and have catalog id x among their eligible content
SameDaySlotsWith(e, h, x) ==
    {n \in 1..Len(e.fills) :
        /\ DateOf(e.fills[n].slot_start) = e.date
        /\ HourOf(e.fills[n].slot_start) = h
        /\ e.fills[n].slot_end <= (e.date + 1) * 1440
        /\ x \in e.fills[n].eligible}

\* two generations for one date and two channels, one right after the other,
\* the first starting from empty usage buckets and an empty cache
DedupScenario(i) ==
    /\ Fresh(trail[i])
    /\ Fresh(trail[i + 1])
    /\ trail[i].clean_before
    /\ trail[i].date = trail[i + 1].date
    /\ trail[i].channel_id # trail[i + 1].channel_id

\* C10 (dedup scenario): in that scenario, when both channels have a slot that
\* starts in hour H and does not cross midnight, and catalog id X is eligible
\* for both slots, X starts in hour H in at most one of the two schedules.
C10_DedupScenario ==
    \A i \in 1..(Len(trail) - 1) :
        DedupScenario(i) =>
            \A h \in 0..23 : \A x \in 1..3 :
                ( /\ SameDaySlotsWith(trail[i], h, x) # {}
                  /\ SameDaySlotsWith(trail[i + 1], h, x) # {} )
                => ~( /\ \E p \in StartingIn(trail[i].result, trail[i].date, h) :
                            p.tmdb_id = x
                      /\ \E q \in StartingIn(trail[i + 1].result, trail[i].date, h) :
                            q.tmdb_id = x )

\* the scenario has happened: the first channel plays X in hour H, and the
\* second, for which X is eligible in a slot starting in hour H, does not
C10_Witness ==
    \E i \in 1..(Len(trail) - 1) :
        /\ DedupScenario(i)
        /\ \E h \in 0..23 : \E x \in 1..3 :
              /\ SameDaySlotsWith(trail[i], h, x) # {}
              /\ SameDaySlotsWith(trail[i + 1], h, x) # {}
              /\ \E p \in StartingIn(trail[i].result, trail[i].date, h) : p.tmdb_id = x
              /\ \A q \in StartingIn(trail[i + 1].result, trail[i].date, h) : q.tmdb_id # x

\* C11 (pool identity): the in-memory pool never holds two records with the
\* same (tmdb_id, media_type), whatever builds and expansions have run and in
\* whatever order suspended calls were resumed.
C11_PoolIdentity ==
    \A i \in 1..Len(global_pool) : \A j \in 1..Len(global_pool) :
        i # j => \/ global_pool[i].tmdb_id # global_pool[j].tmdb_id
                 \/ global_pool[i].media_type # global_pool[j].media_type

\* two builds in a row have each returned the four titles; the pool holds them
\* once, id 1 as a movie and as a series
C11_Witness ==
    /\ Len(trail) >= 2
    /\ Last(trail).op = "build_global_pool"
    /\ Last(trail).offered = 4
    /\ trail[Len(trail) - 1].op = "build_global_pool"
    /\ trail[Len(trail) - 1].offered = 4
    /\ Len(global_pool) = 4
    /\ \E i \in 1..4 : \E j \in 1..4 :
          /\ global_pool[i].tmdb_id = global_pool[j].tmdb_id
          /\ global_pool[i].media_type = "movie"
          /\ global_pool[j].media_type = "tv"

\* C12 (pool record lifecycle): no step removes or moves a pool record, and the
\* only change a step makes to a record already in the pool is to append, to
\* its origin_channels, channel ids it did not hold.
C12_RecordLifecycle ==
    [][ /\ Len(global_pool') >= Len(global_pool)
        /\ \A i \in 1..Len(global_pool) :
              /\ [global_pool'[i] EXCEPT !.origin_channels = global_pool[i].origin_channels]
                     = global_pool[i]
              /\ IsPrefix(global_pool[i].origin_channels, global_pool'[i].origin_channels)
              /\ \A k \in (Len(global_pool[i].origin_channels) + 1)
                              ..Len(global_pool'[i].origin_channels) :
                    \A j \in 1..(k - 1) :
                       global_pool'[i].origin_channels[j]
                           # global_pool'[i].origin_channels[k] ]_vars

\* a build has returned the four titles, movie 2 without attribution, to a
\* pool that held movie 2 attributed to channel B: the record is as it was
C12_Witness ==
    /\ trail # <<>>
    /\ Last(trail).op = "build_global_pool"
    /\ Last(trail).offered = 4
    /\ \E i \in 1..Len(global_pool) :
          /\ global_pool[i].tmdb_id = 2
          /\ global_pool[i].media_type = "movie"
          /\ global_pool[i].origin_channels = <<"B">>

\* the pool records a program was made from
RecordsOf(p) ==
    {global_pool[i] : i \in {k \in 1..Len(global_pool) :
                               /\ global_pool[k].tmdb_id = p.tmdb_id
                               /\ global_pool[k].media_type = p.content_type}}

\* the duration the record calls for: its runtime when positive, else 90
\* minutes for a movie and 45 for a series
DurationFor(r) ==
    IF r.runtime # <<>> /\ r.runtime[1] > 0 THEN r.runtime[1]
    ELSE IF r.media_type = "movie" THEN 90 ELSE 45

\* C14 (runtime fallback): every program of every generated list lasts the
\* runtime of its pool record when that is a positive number, and otherwise 90
\* minutes (movie) or 45 minutes (series); runtime_minutes is that duration.
C14_RuntimeFallback ==
    \A i \in 1..Len(trail) :
       Fresh(trail[i]) =>
          \A k \in 1..Len(trail[i].result) :
             LET p == trail[i].result[k]
             IN /\ RecordsOf(p) # {}
                /\ \A r \in RecordsOf(p) :
                      /\ p.end_time - p.start_time = DurationFor(r)
                      /\ p.runtime_minutes = DurationFor(r)

\* one generated list holds a 90-minute movie without runtime, a 40-minute
\* movie with runtime 40, and a 45-minute series whose runtime is negative
C14_Witness ==
    /\ trail # <<>>
    /\ Fresh(Last(trail))
    /\ \E a, b, c \in ToSet(Last(trail).result) :
          /\ a.content_type = "movie" /\ a.end_time - a.start_time = 90
          /\ \E r \in RecordsOf(a) : r.runtime = <<>>
          /\ b.content_type = "movie" /\ b.end_time - b.start_time = 40
          /\ \E r \in RecordsOf(b) : r.runtime = <<40>>
          /\ c.content_type = "tv" /\ c.end_time - c.start_time = 45
          /\ \E r \in RecordsOf(c) : r.runtime # <<>> /\ r.runtime[1] < 0

\* the reservations of a generated list: (date, hour) bucket and catalog id
\* of every program of every slot filled
ReservationsOf(e) ==
    { << <<e.date, HourOf(e.fills[n].programs[k].start_time)>>,
         e.fills[n].programs[k].tmdb_id >> :
        <<n, k>> \in { nk \in (1..Len(e.fills)) \X (1..4) :
                          nk[2] <= Len(e.fills[nk[1]].programs) } }

\* the reservations a usage map holds
ReservedIn(usage) ==
    UNION { { <<key, x>> : x \in usage[key] } : key \in DOMAIN usage }

\* the number of programs of a generated list
RECURSIVE PlacedCount(_, _)
PlacedCount(e, n) ==
    IF n = 0 THEN 0 ELSE PlacedCount(e, n - 1) + Len(e.fills[n].programs)

C16_ReloadAndDiscover ==
    (trail # <<>> /\ Last(trail).op = "reload_and_discover") =>
        /\ schedule_cache = <<>>
        /\ channels = load_channel_templates(<<>>, TemplateDocs[template])
        /\ ~Last(trail).raised
        /\ Last(trail).discovered = Last(trail).enabled_slots
        /\ Last(trail).saved
        /\ pool_store = global_pool

BareSlotLabels ==
    { TemplateDocs[t].channels[c].slots[n].label :
         <<t, c, n>> \in { x \in ReadableTemplates \X (1..3) \X (1..3) :
             /\ x[2] <= Len(TemplateDocs[x[1]].channels)
             /\ x[3] <= Len(TemplateDocs[x[1]].channels[x[2]].slots)
             /\ DOMAIN TemplateDocs[x[1]].channels[x[2]].slots[x[3]]
                    \subseteq {"start", "end", "label"}
             /\ "label" \in DOMAIN TemplateDocs[x[1]].channels[x[2]].slots[x[3]] } }

\* C18 (empty filter set): when a generation fills a slot that the template
\* declares with start, end and label only, every record of the pool, movie
\* or series, is eligible for the slot.
C18_EmptyFilterSet ==
    (trail # <<>> /\ Fresh(Last(trail))) =>
        \A n \in 1..Len(Last(trail).fills) :
            Last(trail).fills[n].label \in BareSlotLabels =>
                /\ Last(trail).fills[n].eligible_count = Len(global_pool)
                /\ Last(trail).fills[n].eligible
                      = {global_pool[k].tmdb_id : k \in 1..Len(global_pool)}

\* the channels were just loaded from the template document
JustLoaded ==
    /\ trail # <<>>
    /\ Last(trail).op \in {"reload_channels", "reload_and_discover"}

\* s reads as HH:MM: two digits, a colon, two digits, hour below 24 and
\* minute below 60
ReadsAsTime(s) ==
    /\ Len(s) = 5
    /\ s[3] = ":"
    /\ \A i \in {1, 2, 4, 5} : \E d \in 1..10 : DigitChars[d] = s[i]
    /\ s[1] \in {"0", "1"} \/ (s[1] = "2" /\ s[2] \in {"0", "1", "2", "3"})
    /\ s[4] \in {"0", "1", "2", "3", "4", "5"}

\* the minutes after midnight that HH:MM stands for
MinutesOf(s) ==
    LET n(i) == (CHOOSE d \in 1..10 : DigitChars[d] = s[i]) - 1
    IN (n(1) * 10 + n(2)) * 60 + n(4) * 10 + n(5)

\* C19 (per-slot parse fallback): after a load, the engine holds one channel
\* per channel of the document and one slot per slot, in order; a slot whose
\* start is given but does not read as HH:MM starts at 00:00, one whose end is
\* given but does not read as HH:MM ends at 04:00, one whose kind is given but
\* unknown is a movie slot; every time that reads as HH:MM, every known kind,
\* every label and genre list, and every channel id, name and enabled flag is
\* as written.
C19_ParseFallback ==
    JustLoaded =>
        LET doc == TemplateDocs[template].channels
        IN /\ Len(channels) = Len(doc)
           /\ \A c \in 1..Len(doc) :
                 /\ channels[c].id = doc[c].id
                 /\ channels[c].name = doc[c].name
                 /\ ("enabled" \in DOMAIN doc[c]) => channels[c].enabled = doc[c].enabled
                 /\ Len(channels[c].slots) = Len(doc[c].slots)
                 /\ \A n \in 1..Len(doc[c].slots) :
                       LET w == doc[c].slots[n]
                           slot == channels[c].slots[n]
                       IN /\ ("start" \in DOMAIN w) =>
                                slot.start_time = IF ReadsAsTime(w.start)
                                                  THEN MinutesOf(w.start) ELSE 0
                          /\ ("end" \in DOMAIN w) =>
                                slot.end_time = IF ReadsAsTime(w.end)
                                                THEN MinutesOf(w.end) ELSE 4 * 60
                          /\ ("content_type" \in DOMAIN w) =>
                                slot.content_type =
                                   IF w.content_type \in {"movie", "tv", "filler"}
                                   THEN <<w.content_type>> ELSE <<"movie">>
                          /\ ("label" \in DOMAIN w) => slot.label = w.label
                          /\ ("genres" \in DOMAIN w) => slot.genre_ids = w.genres

\* document 2 has been loaded: the slot with start "2x:00" and kind "series"
\* starts at 00:00 and is a movie slot with its label and genres as written,
\* the slot with end "25:00" runs 22:00-04:00, and the slot before it is
\* 21:00-21:00, series, as written
C19_Witness ==
    /\ JustLoaded
    /\ template = 2
    /\ Len(channels) = 2
    /\ channels[1].slots[1].start_time = 0
    /\ channels[1].slots[1].content_type = <<"movie">>
    /\ channels[1].slots[1].label = "B action"
    /\ channels[1].slots[1].genre_ids = <<28>>
    /\ channels[2].slots[2].start_time = 22 * 60
    /\ channels[2].slots[2].end_time = 4 * 60
    /\ channels[2].slots[2].content_type = <<"filler">>
    /\ channels[2].slots[1].start_time = 21 * 60
    /\ channels[2].slots[1].end_time = 21 * 60
    /\ channels[2].slots[1].content_type = <<"tv">>

----------------------------------------------------------------------------
(* Claims about slot filling and the returned list, checked under Spec *)

\* the channel a trail entry names, as the engine holds it (a call that was
\* suspended may carry a channel object the engine has replaced since)
ChannelOf(e) == CHOOSE ch \in ToSet(channels) : ch.id = e.channel_id

\* the slot numbers (0-based) a generation produced a fill for
FilledIndexes(e) == {e.fills[k].slot_index : k \in 1..Len(e.fills)}

\* the programs of the fills of a generation, in template order
RECURSIVE FillPrograms(_)
FillPrograms(fills) ==
    IF fills = <<>> THEN <<>> ELSE Head(fills).programs \o FillPrograms(Tail(fills))

\* a generation that found no cached list and was not suspended on the way
FreshDirect(e) == Fresh(e) /\ ~e.awaited

\* C21 (empty slot tolerance): in a generation that finds no cached list, a
\* slot for which the filter leaves no eligible record contributes no program
\* and does not end the call: every other slot of the channel, before or
\* after it, is filled from its own eligible records, the list returned holds
\* the programs of the filled slots and nothing else, and that list is stored
\* in the cache under (channel, date).
C21_EmptySlot ==
    [][ (GenerateReturns /\ FreshDirect(Last(trail'))) =>
          LET e == Last(trail')
              channel == ChannelOf(e)
          IN /\ \A i \in 1..Len(channel.slots) :
                   LET eligible_content ==
                           filter_pool_by_slot(global_pool', channel.slots[i],
                                               Some(channel.id))
                   IN IF eligible_content = <<>>
                      THEN (i - 1) \notin FilledIndexes(e)
                      ELSE \E k \in 1..Len(e.fills) :
                              /\ e.fills[k].slot_index = i - 1
                              /\ e.fills[k].eligible_count = Len(eligible_content)
                              /\ \A j \in 1..Len(e.fills) :
                                     e.fills[j].slot_index = i - 1 => j = k
             /\ Len(e.result) = Len(FillPrograms(e.fills))
             /\ ToSet(e.result) = ToSet(FillPrograms(e.fills))
             /\ CacheKey(channel, e.date) \in DOMAIN schedule_cache'
             /\ schedule_cache'[CacheKey(channel, e.date)] = e.result ]_vars

\* channel B of the second document has been generated: its second slot had
\* no eligible record, its first and third slots placed programs, its fourth
\* slot was filled too, and the list is in the cache
C21_Witness ==
    /\ trail # <<>>
    /\ FreshDirect(Last(trail))
    /\ template = 2
    /\ Last(trail).channel_id = "B"
    /\ Len(ChannelOf(Last(trail)).slots) = 5
    /\ filter_pool_by_slot(global_pool, ChannelOf(Last(trail)).slots[2], Some("B")) = <<>>
    /\ FilledIndexes(Last(trail)) = {0, 2, 3, 4}
    /\ \A k \in 1..2 : Last(trail).fills[k].programs # <<>>
    /\ schedule_cache[<<"B", Last(trail).date>>] = Last(trail).result

----------------------------------------------------------------------------
(* Claims about the size of a discovery result, checked under SpecDiscover *)

\* C22 (discovery bound): at every point of discover_content_for_filters, and
\* so when it returns, results holds at most max_results records and no two
\* of them have the same catalog id; once results holds max_results records,
\* no step of any stage changes it.
C22_DiscoveryBound ==
    /\ [](disc.pc # "idle" =>
            /\ Len(disc.results) <= disc.max_results
            /\ \A i, j \in 1..Len(disc.results) :
                   disc.results[i].tmdb_id = disc.results[j].tmdb_id => i = j)
    /\ [][(disc.pc # "idle" /\ Len(disc.results) >= disc.max_results) =>
             disc'.results = disc.results]_vars

\* a call with max_results 1, four keywords and two universes has returned
\* one record: the first keyword search found it, and no other keyword, no
\* title pattern and no discover page was asked for
C22_Witness ==
    /\ disc.pc = "returned"
    /\ disc.max_results = 1
    /\ Len(disc.results) = 1
    /\ Len(disc.keywords) = 4
    /\ Len(disc.universes) = 2
    /\ disc.queried = {<<"keyword", 1>>}

----------------------------------------------------------------------------
(* Claims about persisted state, checked under SpecRestart *)

\* this step ends the process and constructs a new engine
RestartReturns ==
    /\ nops' # nops
    /\ trail' # <<>>
    /\ Last(trail').op = "restart"

\* the movies recorded for a channel in a cooldown map, with their dates
RecordedMovies(played, pool) ==
    { <<channel_id, tmdb_id>> \in ToSet(ChannelIds) \X {m.tmdb_id : m \in ToSet(pool)} :
         /\ channel_id \in DOMAIN played
         /\ tmdb_id \in DOMAIN played[channel_id] }

----------------------------------------------------------------------------
(* Claims about the program list of a generation, checked under Spec *)

\* C24 (program id uniqueness): in the list one generation run produced for a
\* (channel, date), which is the list the cache holds under that key, no two
\* programs have the same id (catalog id and start time).
C24_UniqueIds ==
    \A key \in DOMAIN schedule_cache :
       \A i, j \in 1..Len(schedule_cache[key]) :
          schedule_cache[key][i].id = schedule_cache[key][j].id => i = j

\* a generation filled two slots that start at the same minute and share an
\* eligible title: the first placed it at that minute, the second did not
C24_Witness ==
    /\ trail # <<>>
    /\ Fresh(Last(trail))
    /\ schedule_cache[<<Last(trail).channel_id, Last(trail).date>>] = Last(trail).result
    /\ \E a, b \in 1..Len(Last(trail).fills) :
          LET first == Last(trail).fills[a]
              second == Last(trail).fills[b]
          IN /\ a < b
             /\ first.slot_start = second.slot_start
             /\ first.programs # <<>>
             /\ first.programs[1].start_time = first.slot_start
             /\ first.programs[1].tmdb_id \in second.eligible
             /\ first.programs[1].content_type = "tv"
             /\ \A k \in 1..Len(second.programs) :
                    second.programs[k].id # first.programs[1].id

\* start times never decrease along the list
SortedByStart(programs) ==
    \A i \in 1..(Len(programs) - 1) : programs[i].start_time <= programs[i + 1].start_time

\* C25 (output order): every list the cache holds, and the list the last
\* call of generate_schedule_for_date returned, has its programs in
\* non-decreasing order of start time, whatever the order and the overlaps of
\* the slots in the template.
C25_OutputOrder ==
    /\ \A key \in DOMAIN schedule_cache : SortedByStart(schedule_cache[key])
    /\ (trail # <<>> /\ Last(trail).op = "generate") => SortedByStart(Last(trail).result)

\* a generation whose slots, taken in template order, gave programs out of
\* time order (a later slot starts earlier, or overlaps an earlier one): the
\* list returned and cached is a reordering of them
C25_Witness ==
    /\ trail # <<>>
    /\ Fresh(Last(trail))
    /\ ~SortedByStart(FillPrograms(Last(trail).fills))
    /\ Len(Last(trail).result) = Len(FillPrograms(Last(trail).fills))
    /\ SortedByStart(Last(trail).result)
    /\ schedule_cache[<<Last(trail).channel_id, Last(trail).date>>] = Last(trail).result

Abs(n) == IF n < 0 THEN -n ELSE n

\* C26 (cooldown predicate): for every channel, every record of the pool and
\* every target date X, _is_in_cooldown answers true exactly when the record
\* is a movie and the channel has a recorded play date L for its catalog id
\* with |X - L| < 7; so a series is never in cooldown, and a movie whose
\* recorded date is 7 or more days before or after X is not in cooldown.
C26_CooldownPredicate ==
    \A channel_id \in ToSet(ChannelIds) : \A i \in 1..Len(global_pool) :
       \A X \in RequestDates :
          LET m == global_pool[i]
              recorded == /\ channel_id \in DOMAIN recently_played
                          /\ m.tmdb_id \in DOMAIN recently_played[channel_id]
          IN is_in_cooldown(recently_played, channel_id, m.tmdb_id, m.media_type, X)
                <=> /\ m.media_type = "movie"
                    /\ recorded
                    /\ Abs(X - recently_played[channel_id][m.tmdb_id]) < CooldownDays

\* C30 (midnight crossing): for every slot the engine holds and every date,
\* the window starts at date + start; it ends at date + end when end is after
\* start and at date + one day + end otherwise (so end = start gives 24
\* hours); its length is more than 0 and at most 1440 minutes and equals
\* TimeSlot.duration_minutes(); and the fills of the generation just made
\* carry exactly that window, with every program starting inside it.
C30_MidnightCrossing ==
    /\ \A k \in 1..Len(channels) : \A i \in 1..Len(channels[k].slots) :
          \A d \in RequestDates :
             LET slot == channels[k].slots[i]
                 slot_start == SlotStart(slot, d)
                 slot_end == SlotEnd(slot, d)
             IN /\ slot_start = d * 1440 + slot.start_time
                /\ slot.end_time > slot.start_time => slot_end = d * 1440 + slot.end_time
                /\ slot.end_time <= slot.start_time =>
                       slot_end = (d + 1) * 1440 + slot.end_time
                /\ slot.end_time = slot.start_time => slot_end - slot_start = 1440
                /\ slot_end - slot_start \in 1..1440
                /\ slot_end - slot_start = duration_minutes(slot)
    /\ (trail # <<>> /\ FreshDirect(Last(trail))) =>
          \A k \in 1..Len(Last(trail).fills) :
             LET fill == Last(trail).fills[k]
                 slot == ChannelOf(Last(trail)).slots[fill.slot_index + 1]
             IN /\ fill.slot_start = SlotStart(slot, Last(trail).date)
                /\ fill.slot_end = fill.slot_start + duration_minutes(slot)
                /\ \A n \in 1..Len(fill.programs) :
                       /\ fill.slot_start <= fill.programs[n].start_time
                       /\ fill.programs[n].start_time < fill.slot_end

\* a generation filled a slot whose end equals its start (a 24-hour window)
\* and a slot that ends after its start, and placed programs in both
C30_Witness ==
    /\ trail # <<>>
    /\ FreshDirect(Last(trail))
    /\ \E k \in 1..Len(Last(trail).fills) :
          LET slot == ChannelOf(Last(trail)).slots[Last(trail).fills[k].slot_index + 1]
          IN /\ slot.end_time = slot.start_time
             /\ Last(trail).fills[k].slot_end - Last(trail).fills[k].slot_start = 1440
             /\ Last(trail).fills[k].programs # <<>>
    /\ \E k \in 1..Len(Last(trail).fills) :
          LET slot == ChannelOf(Last(trail)).slots[Last(trail).fills[k].slot_index + 1]
          IN /\ slot.end_time > slot.start_time
             /\ Last(trail).fills[k].programs # <<>>

----------------------------------------------------------------------------
(* Claims about the merge of discovery results, checked under SpecMerge *)

\* the pool records with the key of a record
Holding(pool, metadata) ==
    {k \in 1..Len(pool) : ContentKey(pool[k]) = ContentKey(metadata)}

----------------------------------------------------------------------------
(* Claims about engine instances, checked under SpecRestart *)

\* the programs, in order, are titles of the list, in the order of the list
RECURSIVE InOrderOf(_, _)
InOrderOf(programs, contents) ==
    IF programs = <<>> THEN TRUE
    ELSE IF contents = <<>> THEN FALSE
    ELSE IF /\ Head(programs).tmdb_id = Head(contents).tmdb_id
            /\ Head(programs).content_type = Head(contents).media_type
         THEN InOrderOf(Tail(programs), Tail(contents))
         ELSE InOrderOf(programs, Tail(contents))

----------------------------------------------------------------------------
(* Claims about the walk that fills one slot, checked under Spec *)

\* where the walk of a fill left current_time
CursorAfter(fill) ==
    IF fill.programs = <<>> THEN fill.slot_start
    ELSE fill.programs[Len(fill.programs)].end_time

\* the iterations of a fill that placed a program
PlacedSteps(fill) ==
    {k \in 1..Len(fill.examined) : fill.examined[k].outcome = "placed"}

\* C31: filling one slot reads the shuffled eligible list front to back, one
\* record per iteration and no record twice (a record passed over for
\* cooldown, hourly use or overflow is not read again in that slot); the walk
\* ends as soon as the cursor has reached slot_end or the list is exhausted,
\* so it makes at most |eligible| iterations.
C31_SinglePass ==
    \A i \in 1..Len(trail) :
       Fresh(trail[i]) =>
          \A k \in 1..Len(trail[i].fills) :
             LET fill == trail[i].fills[k]
                 n == Len(fill.examined)
             IN /\ n <= fill.eligible_count
                /\ \A j \in 1..n : fill.examined[j].index = j - 1
                /\ Cardinality(PlacedSteps(fill)) = Len(fill.programs)
                /\ n = fill.eligible_count \/ CursorAfter(fill) >= fill.slot_end
                /\ CursorAfter(fill) >= fill.slot_end =>
                       /\ n > 0
                       /\ fill.examined[n].outcome = "placed"

\* a walk that passed a record over, and a walk that ended at slot_end with a
\* record of the list unread
C31_Witness ==
    /\ trail # <<>>
    /\ Fresh(Last(trail))
    /\ \E k \in 1..Len(Last(trail).fills) :
          \E j \in 1..Len(Last(trail).fills[k].examined) :
             /\ Last(trail).fills[k].examined[j].outcome # "placed"
             /\ j < Len(Last(trail).fills[k].examined)
    /\ \E k \in 1..Len(Last(trail).fills) :
          /\ Len(Last(trail).fills[k].examined) < Last(trail).fills[k].eligible_count
          /\ CursorAfter(Last(trail).fills[k]) >= Last(trail).fills[k].slot_end

----------------------------------------------------------------------------
(* Claims about the country filter, checked under SpecCountries *)

\* a string of characters read as one value
RECURSIVE Joined(_)
Joined(chars) == IF chars = <<>> THEN "" ELSE Head(chars) \o Joined(Tail(chars))

\* the countries the slot requires: the code its template entry gives
RequiredCountries(slot) ==
    IF IsNone(slot.production_countries) \/ Val(slot.production_countries) = <<>>
    THEN {}
    ELSE {Joined(Val(slot.production_countries))}

\* C32: a record that is not attributed to the channel passes the country
\* filter of a slot exactly when one of its origin countries is one of the
\* countries the slot requires; a slot whose template gives "MX" accepts a
\* record whose origin countries are ["MX"].
C32_Countries ==
    (Applied /\ RequiredCountries(m_slot) # {}) =>
        (m_eligible["Y"] <=>
            ToSet(m_content.origin_countries) \cap RequiredCountries(m_slot) # {})

----------------------------------------------------------------------------
(* Claims about the title/overview search, checked under SpecTitle *)

\* a term with every occurrence of one word written as the other
Translated(term, from, to) ==
    IF StrIn(from, term) THEN {StrReplace(term, from, to)} ELSE {}

\* the normalized term and its translations, episode <-> episodio and
\* series <-> serie
TermVariants(term) ==
    LET p == NormalizeText(StrLower(term))
    IN {p} \cup Translated(p, EpisodeStr, EpisodioStr)
           \cup Translated(p, EpisodioStr, EpisodeStr)
           \cup Translated(p, SeriesStr, SerieStr)
           \cup Translated(p, SerieStr, SeriesStr)

\* the normalized concatenation of title and overview
SearchedText(c) == NormalizeText(StrLower(c.title \o <<" ">> \o c.overview))

\* C33: a record that is not attributed to the channel passes the
\* title_contains filter exactly when some search term, normalized, or a
\* translation of it (episode <-> episodio, series <-> serie), is a substring
\* of the normalized title and overview.
C33_TitleContains ==
    Applied =>
        (m_eligible["Y"] <=>
            \E term \in ToSet(m_slot.title_contains) :
               \E variant \in TermVariants(term) : StrIn(variant, SearchedText(m_content)))

----------------------------------------------------------------------------
(* Claims about universe detection, checked under SpecDetect *)

\* the catalog item of the call, as its lookups answered: title (or name),
\* original title (or original name), keyword names, collection id and
\* production-company ids; a lookup that failed contributes nothing
ItemTitle(item) == IF ~IsNone(item.title) THEN Val(item.title) ELSE Val(item.name)

ItemOriginal(item) ==
    IF ~IsNone(item.original_title) THEN Val(item.original_title)
    ELSE Val(item.original_name)

ItemKeywordNames(item) == IF item.keywords_ok THEN ToSet(item.keywords) ELSE {}

ItemCollection(item) ==
    IF item.details_ok /\ ~IsNone(item.belongs_to_collection)
    THEN {Val(item.belongs_to_collection)} ELSE {}

ItemCompanyIds(item) == IF item.details_ok THEN ToSet(item.production_companies) ELSE {}

\* a letter, a digit or an underscore
InsideWord(c) == \E cs \in {UpperChars, LowerChars, DigitChars} : c \in ToSet(cs) \/ c = "_"

\* pattern occurs in text, whatever the case, with no word character right
\* before or right after the occurrence
AsWholeWord(pattern, text) ==
    \E k \in 0..(Len(text) - Len(pattern)) :
       /\ SubSeq(StrLower(text), k + 1, k + Len(pattern)) = StrLower(pattern)
       /\ k > 0 => ~InsideWord(text[k])
       /\ k + Len(pattern) < Len(text) => ~InsideWord(text[k + Len(pattern) + 1])

\* at least one rule of the label holds for the item
SomeRuleHolds(label, item) ==
    LET rules == DetectionRules[label]
    IN \/ /\ "collection_ids" \in DOMAIN rules
          /\ ItemCollection(item) \cap ToSet(rules.collection_ids) # {}
       \/ /\ "keywords" \in DOMAIN rules
          /\ \E rk \in ToSet(rules.keywords) : \E ik \in ItemKeywordNames(item) :
                StrIn(rk, StrLower(ik))
       \/ /\ "companies" \in DOMAIN rules
          /\ ItemCompanyIds(item) \cap ToSet(rules.companies) # {}
       \/ /\ "title_patterns" \in DOMAIN rules
          /\ \E tp \in ToSet(rules.title_patterns) :
                AsWholeWord(tp, ItemTitle(item)) \/ AsWholeWord(tp, ItemOriginal(item))

\* C34: detect_universes assigns a label to an item exactly when at least one
\* rule of the label holds: the collection id is one of the rule's, a rule
\* keyword is a substring of an item keyword, a production company is one of
\* the rule's, or a rule title pattern occurs as a whole word in the title or
\* the original title, whatever the case.  A pattern that occurs only inside a
\* longer word ("Andor" in "Resplandor") assigns nothing, every label is
\* returned once, and an item may get several labels.
C34_Detection ==
    det.pc = "returned" =>
        /\ \A label \in DOMAIN DetectionRules :
               label \in ToSet(det.universes) <=> SomeRuleHolds(label, det.item)
        /\ \A a, b \in 1..Len(det.universes) : det.universes[a] = det.universes[b] => a = b
        /\ ( /\ ItemTitle(det.item) = <<"R","e","s","p","l","a","n","d","o","r">>
             /\ ItemOriginal(det.item) \in {<<>>, <<"E","l"," ","r","e","s","p","l","a","n","d","o","r">>}
             /\ ItemKeywordNames(det.item) = {}
             /\ ItemCollection(det.item) = {}
             /\ ItemCompanyIds(det.item) = {} )
             => det.universes = <<>>

\* an item titled "THOR vs Batman", with no keyword, collection or company,
\* has got the labels of two universes from its title alone
C34_Witness ==
    /\ det.pc = "returned"
    /\ ItemTitle(det.item) = <<"T","H","O","R"," ","v","s"," ","B","a","t","m","a","n">>
    /\ ItemKeywordNames(det.item) = {}
    /\ ItemCollection(det.item) = {}
    /\ ItemCompanyIds(det.item) = {}
    /\ det.universes = <<"Marvel Cinematic Universe", "DC Extended Universe">>

----------------------------------------------------------------------------
(* Guide requests (spec: the guide never shows one title on two channels   *)
(* in the same hour)                                                        *)

\* no slot of a loaded channel ends on the day after it starts
NoSlotCrossesMidnight ==
    \A i \in 1..Len(channels) : \A k \in 1..Len(channels[i].slots) :
        channels[i].slots[k].start_time < channels[i].slots[k].end_time

\* the (catalog id, date, hour) of the starts of the programs of a guide row
RowStarts(row) ==
    {<<row.programs[i].tmdb_id, DateOf(row.programs[i].start_time),
       HourOf(row.programs[i].start_time)>> : i \in 1..Len(row.programs)}

\* the guide requests among the last operations
GuideEntries == {i \in 1..Len(trail) : trail[i].op = "get_guide"}

\* C35: when no slot of the loaded channels crosses midnight, the programs a
\* guide request returns never show one catalog id starting in the same date
\* and hour on two different channels, whatever requests came before it.
C35_GuideDedup ==
    NoSlotCrossesMidnight =>
        \A e \in GuideEntries :
            \A i, j \in 1..Len(trail[e].guide) :
                i # j => RowStarts(trail[e].guide[i]) \cap RowStarts(trail[e].guide[j]) = {}

\* (comparison) the same, for the guide requests that read no channel's
\* schedule from the cache
C35_FreshGuides ==
    NoSlotCrossesMidnight =>
        \A e \in GuideEntries :
            (\A r \in 1..Len(trail[e].guide) : ~trail[e].guide[r].cached) =>
                \A i, j \in 1..Len(trail[e].guide) :
                    i # j => RowStarts(trail[e].guide[i]) \cap RowStarts(trail[e].guide[j]) = {}

----------------------------------------------------------------------------
(* Usage and cooldown tracking of a movie and a series with one numeric id *)
(* (spec: the cooldown is consulted only for movies, series are exempt)    *)

\* the numeric ids that a movie of the pool carries
PoolMovieIds ==
    {global_pool[k].tmdb_id : k \in {n \in 1..Len(global_pool) :
                                        global_pool[n].media_type = "movie"}}

\* what is tracked for the ids of T, checked against the placements of the
\* media types of kinds: a recorded last play date of channel c is a date for
\* which such a record was placed on c, and an id in an hour bucket of a date
\* is one that such a record was placed with for that date
TrackedAsPlaced(T, kinds) ==
    /\ \A c \in DOMAIN recently_played : \A id \in DOMAIN recently_played[c] \cap T :
          \E a \in placed : /\ a[1] = c /\ a[2] = recently_played[c][id]
                             /\ a[3] = id /\ a[4] \in kinds
    /\ \A key \in DOMAIN content_usage : \A id \in content_usage[key] \cap T :
          \E a \in placed : a[2] = key[1] /\ a[3] = id /\ a[4] \in kinds

\* C36: a movie and a series with the same numeric id are tracked apart:
\* the hour buckets hold a movie's id, and a channel's cooldown map holds a
\* last play date for it, only for a date on which the movie itself was
\* placed; placing the series sets neither.
C36_IdentityTracking == TrackedAsPlaced(PoolMovieIds, {"movie"})

\* (comparison) every tracked id was placed, as a movie or as a series
C36_TrackedIdsWerePlaced == TrackedAsPlaced(PoolMovieIds, {"movie", "tv"})

----------------------------------------------------------------------------
(* The schedule cache across reload_channels                                *)

\* a program that a slot of the channel emits for the date: it carries the
\* slot's label and starts inside the slot's window
EmittedBy(channel, target_date, p) ==
    \E k \in 1..Len(channel.slots) :
        /\ p.slot_label = channel.slots[k].label
        /\ SlotStart(channel.slots[k], target_date) <= p.start_time
        /\ p.start_time < SlotEnd(channel.slots[k], target_date)

\* the list stored under key is one that the loaded channel of that id emits
FromLoadedChannel(key) ==
    \E i \in 1..Len(channels) :
        /\ channels[i].id = key[1]
        /\ \A n \in 1..Len(schedule_cache[key]) :
              EmittedBy(channels[i], key[2], schedule_cache[key][n])

\* the generations among the last operations that were suspended on the pool
\* build before they reached the cache
ResumedKeys ==
    {<<trail[i].channel_id, trail[i].date>> :
        i \in {n \in 1..Len(trail) : trail[n].op = "generate" /\ trail[n].awaited}}

\* C37: every list in the schedule cache under (channel id, date) was
\* generated from the channel definition that is loaded now: the channel is
\* loaded and each program of the list comes from one of its slots; a
\* generation that was suspended on the pool build while reload_channels ran
\* stores nothing computed from the definition the reload replaced.
C37_NoStaleSchedule == \A key \in DOMAIN schedule_cache : FromLoadedChannel(key)

\* (comparison) the same for the lists that no suspended generation stored
C37_DirectCallsNotStale ==
    \A key \in DOMAIN schedule_cache \ ResumedKeys : FromLoadedChannel(key)

----------------------------------------------------------------------------
(* A reload that raises, checked under SpecReload                          *)

\* the reloads among the last operations that raised
FailedReloads == {i \in 1..Len(trail) : trail[i].op = "reload_channels" /\ trail[i].raised}

\* C38: when reload_channels raises while it reads the template document
\* (text that is not JSON, or a channel entry without id or name), the
\* engine's channel list and its schedule cache are what they were before
\* the call.
C38_FailedReload ==
    (trail # <<>> /\ Len(trail) \in FailedReloads) =>
        /\ channels = Last(trail).channels_before
        /\ schedule_cache = Last(trail).cache_before

\* (comparison) the schedule cache is what it was before the call
C38_FailedReloadKeepsCache ==
    (trail # <<>> /\ Len(trail) \in FailedReloads) =>
        schedule_cache = Last(trail).cache_before

----------------------------------------------------------------------------
(* One day of one channel, checked under SpecGuide                          *)

\* no two programs of the list are the same movie
NoMovieTwice(programs) ==
    \A i, j \in 1..Len(programs) :
        (/\ i # j
         /\ programs[i].content_type = "movie"
         /\ programs[j].content_type = "movie") => programs[i].tmdb_id # programs[j].tmdb_id

\* C39: the program list generated for one channel and one date holds no
\* movie more than once, over all the slots of the channel and whatever the
\* usage buckets and the cooldown map held before the call; this is stated
\* of every list in the cache and of every list a generation returned.
C39_NoSameDayRepeat ==
    /\ \A key \in DOMAIN schedule_cache : NoMovieTwice(schedule_cache[key])
    /\ \A i \in 1..Len(trail) :
          trail[i].op = "generate" => NoMovieTwice(trail[i].result)

\* a generation that found usage recorded and no cached list, placed a movie
\* in one slot and read the same movie again in a later slot, where it was
\* passed over
C39_Witness ==
    /\ trail # <<>>
    /\ Fresh(Last(trail))
    /\ ~Last(trail).clean_before
    /\ \E k1, k2 \in 1..Len(Last(trail).fills) :
          /\ k1 < k2
          /\ \E n \in 1..Len(Last(trail).fills[k1].programs) :
                \E m \in 1..Len(Last(trail).fills[k2].examined) :
                   /\ Last(trail).fills[k1].programs[n].content_type = "movie"
                   /\ Last(trail).fills[k2].label # Last(trail).fills[k1].label
                   /\ Last(trail).fills[k2].examined[m].tmdb_id
                         = Last(trail).fills[k1].programs[n].tmdb_id
                   /\ Last(trail).fills[k2].examined[m].outcome = "cooldown"

----------------------------------------------------------------------------
(* The programs of one slot, checked under Spec                            *)

\* the programs of a fill follow one another from the slot's start
Contiguous(fill) ==
    /\ fill.programs # <<>> => fill.programs[1].start_time = fill.slot_start
    /\ \A n \in 1..Len(fill.programs) :
          fill.programs[n].start_time < fill.programs[n].end_time
    /\ \A n \in 1..(Len(fill.programs) - 1) :
          fill.programs[n + 1].start_time = fill.programs[n].end_time

\* C40: among the programs emitted for one slot the first starts at the
\* slot's start and each following one starts when the one before it ends,
\* so the programs of a slot do not overlap and time is left empty only
\* after the last of them.
C40_Contiguity ==
    \A i \in 1..Len(trail) :
        Fresh(trail[i]) =>
            \A k \in 1..Len(trail[i].fills) : Contiguous(trail[i].fills[k])

\* a generation in which a slot emitted two programs and the second ended
\* before the slot's end
C40_Witness ==
    /\ trail # <<>>
    /\ Fresh(Last(trail))
    /\ \E k \in 1..Len(Last(trail).fills) :
          /\ Len(Last(trail).fills[k].programs) = 2
          /\ Last(trail).fills[k].programs[2].start_time > Last(trail).fills[k].slot_start
          /\ Last(trail).fills[k].programs[2].end_time < Last(trail).fills[k].slot_end

====
